---- MODULE Spec2Model ----
(***************************************************************************)
(* Gmail -> TripIt historic import: the persistent state store             *)
(* (state/state_manager.py), the deduplicator (dedup/deduplicator.py) and  *)
(* the two-phase orchestrator (main.py), as a state machine.               *)
(*                                                                         *)
(* One behaviour is a sequence of process invocations of main() against    *)
(* one SQLite database and one remote mailbox.  A process may end at any   *)
(* point (killed, or an exception that no per-message handler catches).    *)
(***************************************************************************)
EXTENDS Integers, Sequences, FiniteSets, TLC

\* ------------------------------------------------------------------ bounds
NumMsgs == 2
MaxList == 2
MaxEvents == 3

\* --------------------------------------------------------------- constants
FUZZY_THRESHOLD == 95

Msgs == 1..NumMsgs
\* Optional strings are sequences: None is a value no string equals, a
\* booking reference is its characters, an error text is one opaque token.
None == <<"None">>

PHASE1_LABEL == "PHASE1_LABEL"
PHASE2_FORWARD == "PHASE2_FORWARD"
Phases == {PHASE1_LABEL, PHASE2_FORWARD}
SUCCESS == "SUCCESS"
FAILED == "FAILED"
SKIPPED == "SKIPPED"
Statuses == {SUCCESS, FAILED, SKIPPED}

\* str(e) of the exceptions a per-message handler can see
ErrHttp == <<"HttpError">>
ErrParse == <<"ParseError">>
ErrStore == <<"OperationalError">>


\* ------------------------------------------------------- booking references
\* A reference is None or a string, modelled as a sequence of characters.
UpperChar(c) ==
    CASE c = "a" -> "A"
      [] c = "b" -> "B"
      [] c = "c" -> "C"
      [] c = "d" -> "D"
      [] OTHER -> c

\* str.upper()
Upper(s) == [i \in DOMAIN s |-> UpperChar(s[i])]

Max(a, b) == IF a >= b THEN a ELSE b

Range(seq) == {seq[i] : i \in DOMAIN seq}

\* number of matching characters that the sequence matcher reports
RECURSIVE Matches(_, _)
Matches(s, t) ==
    IF Len(s) = 0 \/ Len(t) = 0 THEN 0
    ELSE IF Head(s) = Head(t) THEN 1 + Matches(Tail(s), Tail(t))
    ELSE Max(Matches(Tail(s), t), Matches(s, Tail(t)))

\* int(round(x)) for x = n / d, Python rounding (half to even)
RoundDiv(n, d) ==
    LET q == n \div d
        r == n % d
    IN  IF 2 * r > d THEN q + 1
        ELSE IF 2 * r < d THEN q
        ELSE IF q % 2 = 0 THEN q ELSE q + 1

\* fuzz.ratio(s, t): 0..100
Ratio(s, t) ==
    IF s = t THEN 100
    ELSE IF Len(s) = 0 \/ Len(t) = 0 THEN 0
    ELSE RoundDiv(200 * Matches(s, t), Len(s) + Len(t))

\* Python truthiness of an optional string: "not pnr"
Falsy(pnr) == pnr = None \/ pnr = << >>

\* Variant: the references are compared as given, without upper-casing
are_pnrs_duplicate_case_sensitive(pnr1, pnr2, threshold) ==
    IF Falsy(pnr1) \/ Falsy(pnr2) THEN FALSE
    ELSE IF pnr1 = pnr2 THEN TRUE
    ELSE Ratio(pnr1, pnr2) >= threshold

\* Deduplicator.are_pnrs_duplicate with self.fuzzy_threshold = threshold
are_pnrs_duplicate(pnr1, pnr2, threshold) ==
    IF Falsy(pnr1) \/ Falsy(pnr2) THEN FALSE
    ELSE IF Upper(pnr1) = Upper(pnr2) THEN TRUE
    ELSE Ratio(Upper(pnr1), Upper(pnr2)) >= threshold

\* Deduplicator.get_unique_emails over a list of records [message_id, pnr];
\* seen is the set seen_pnrs, unique the list unique_emails built so far.
RECURSIVE UniqueFrom(_, _, _, _)
UniqueFrom(list, seen, unique, threshold) ==
    IF list = << >> THEN unique
    ELSE LET email == Head(list)
             pnr == IF Falsy(email.pnr) THEN None ELSE Upper(email.pnr)
         IN  IF pnr = None
             THEN UniqueFrom(Tail(list), seen, Append(unique, email), threshold)
             ELSE IF \E seen_pnr \in seen : are_pnrs_duplicate(pnr, seen_pnr, threshold)
             THEN UniqueFrom(Tail(list), seen, unique, threshold)
             ELSE UniqueFrom(Tail(list), seen \cup {pnr}, Append(unique, email), threshold)

\* Variant: a reference that matched is taken out of seen_pnrs again, so the
\* next record with it counts as a first occurrence
RECURSIVE UniqueFrom_forgets_matched(_, _, _, _)
UniqueFrom_forgets_matched(list, seen, unique, threshold) ==
    IF list = << >> THEN unique
    ELSE LET email == Head(list)
             pnr == IF Falsy(email.pnr) THEN None ELSE Upper(email.pnr)
             hits == {seen_pnr \in seen : are_pnrs_duplicate(pnr, seen_pnr, threshold)}
         IN  IF pnr = None
             THEN UniqueFrom_forgets_matched(Tail(list), seen, Append(unique, email),
                                             threshold)
             ELSE IF hits # {}
             THEN UniqueFrom_forgets_matched(Tail(list), seen \ hits, unique, threshold)
             ELSE UniqueFrom_forgets_matched(Tail(list), seen \cup {pnr},
                                             Append(unique, email), threshold)

get_unique_emails_forgets_matched(list, threshold) ==
    UniqueFrom_forgets_matched(list, {}, << >>, threshold)

get_unique_emails(list, threshold) == UniqueFrom(list, {}, << >>, threshold)

\* ------------------------------------------------------------ state store
\* emails table: message_id -> row (NoRow when the id is not in the table)
NoRow == [present |-> FALSE, pnr |-> None]
Row(pnr) == [present |-> TRUE, pnr |-> pnr]

\* processing_state row
Event(message_id, phase, status, error_msg) ==
    [message_id |-> message_id, phase |-> phase, status |-> status,
     error_message |-> error_msg]

\* Variant: the record is not written (the call returns without an INSERT)
save_email_not_written(tbl, message_id, pnr) == tbl

\* Variant: an upsert that updates only the supplied fields - a field that
\* is not supplied keeps the stored value
save_email_keeps_unsupplied(tbl, message_id, pnr) ==
    [tbl EXCEPT ![message_id] = Row(IF pnr = None /\ tbl[message_id].present
                                    THEN tbl[message_id].pnr ELSE pnr)]

\* StateManager.save_email: INSERT OR REPLACE INTO emails
save_email(tbl, message_id, pnr) == [tbl EXCEPT ![message_id] = Row(pnr)]

\* Variant: INSERT OR REPLACE keyed by (message_id, phase) - a newer row of
\* the pair overwrites the older one.
mark_email_processed_replace(led, message_id, phase, status, error_msg) ==
    IF \E i \in DOMAIN led : led[i].message_id = message_id /\ led[i].phase = phase
    THEN [i \in DOMAIN led |->
              IF led[i].message_id = message_id /\ led[i].phase = phase
              THEN Event(message_id, phase, status, error_msg) ELSE led[i]]
    ELSE Append(led, Event(message_id, phase, status, error_msg))

\* StateManager.mark_email_processed: INSERT INTO processing_state
mark_email_processed(led, message_id, phase, status, error_msg) ==
    Append(led, Event(message_id, phase, status, error_msg))

\* Variant: "latest wins" - only the newest row of the message is looked at
\* (ORDER BY id DESC LIMIT 1), and it must be a SUCCESS row of the phase.
is_email_processed_latest(led, message_id, phase) ==
    LET rows == SelectSeq(led, LAMBDA ps : ps.message_id = message_id)
    IN  /\ rows # << >>
        /\ rows[Len(rows)].phase = phase
        /\ rows[Len(rows)].status = SUCCESS

\* Variant: the status is not part of the WHERE clause - any row of the
\* (message, phase) pair counts as processed.
is_email_processed_any_status(led, message_id, phase) ==
    \E i \in DOMAIN led : led[i].message_id = message_id /\ led[i].phase = phase

\* Variant: "first wins" - only the oldest row of the (message, phase) pair
\* is looked at (ORDER BY id ASC LIMIT 1), and it must be a SUCCESS row.
is_email_processed_first(led, message_id, phase) ==
    LET rows == SelectSeq(led, LAMBDA ps : /\ ps.message_id = message_id
                                           /\ ps.phase = phase)
    IN  /\ rows # << >>
        /\ rows[1].status = SUCCESS

\* StateManager.is_email_processed:
\* SELECT 1 ... WHERE message_id = ? AND phase = ? AND status = 'SUCCESS' LIMIT 1
is_email_processed(led, message_id, phase) ==
    LET rows == SelectSeq(led, LAMBDA ps : /\ ps.message_id = message_id
                                           /\ ps.phase = phase
                                           /\ ps.status = SUCCESS)
        result == SubSeq(rows, 1, IF Len(rows) >= 1 THEN 1 ELSE 0)
    IN  result # << >>

\* Variant: the subquery does not compare the phase - a SUCCESS row of any
\* phase hides the email.
UnprocessedIds_any_phase(tbl, led, phase) ==
    {m \in Msgs : /\ tbl[m].present
                  /\ ~ \E i \in DOMAIN led : /\ led[i].message_id = m
                                             /\ led[i].status = SUCCESS}

\* The WHERE clause of StateManager.get_unprocessed_emails: the ids of the
\* emails rows for which NOT EXISTS a SUCCESS row of the phase.
UnprocessedIds(tbl, led, phase) ==
    {m \in Msgs : /\ tbl[m].present
                  /\ ~ \E i \in DOMAIN led : /\ led[i].message_id = m
                                             /\ led[i].phase = phase
                                             /\ led[i].status = SUCCESS}

\* all orders in which a set of ids can be listed
Orderings(S) ==
    {f \in [1..Cardinality(S) -> S] : \A i, j \in 1..Cardinality(S) : i # j => f[i] # f[j]}

\* StateManager.get_unprocessed_emails: the rows in some order (the query has
\* no ORDER BY), each as a record [message_id, pnr].
get_unprocessed_emails(tbl, led, phase) ==
    {[i \in DOMAIN ord |-> [message_id |-> ord[i], pnr |-> tbl[ord[i]].pnr]] :
        ord \in Orderings(UnprocessedIds(tbl, led, phase))}

\* --------------------------------------------------------------- variables
VARIABLES
    mailbox,          \* remote: message id -> what the message is (immutable)
    search_result,    \* remote: the ids the query matches, in listing order
    label_exists,     \* remote: the review label has been created
    labeled,          \* remote: ids the label has been applied to
    sent,             \* remote: ids forwarded to the aggregator at least once
    emails,           \* store: emails table
    ledger,           \* store: processing_state table, in id order
    pc,               \* position of the running process ("idle": none runs)
    args,             \* command line of the running process
    todo,             \* phases main() has still to run after the current one
    message_list,     \* phase 1: search result
    idx,              \* position in message_list / message_ids
    flight_messages,  \* phase 1: the to-label batch
    message_ids,      \* phase 2: ids to forward
    err,              \* str(e) of the exception the handler is handling
    calls,            \* remote API calls made by the latest step
    cur_statuses,     \* FAILED, SKIPPED: recorded by the phase 1 sweep in progress
    prev_p1,          \* summary of the latest phase 1 run, if it completed
    dry_run_enabled,  \* DryRunManager._enabled
    func_calls,       \* dry_run_safe: the invocations of the wrapped functions
    wrapper_log,      \* dry_run_safe: the calls of the wrappers and their results
    retry,            \* make_request_with_backoff: the call in progress
    checkpoints,      \* store: sync_checkpoints table, in id order
    conn,             \* store: the connection scope of the operation in progress
    twin,             \* comparison of a dry-run and a normal run: stage, the
                      \* per-message outcomes, store copies
    pure              \* a call of a function without side effects: the
                      \* function, its arguments, what it returned

vars == <<mailbox, search_result, label_exists, labeled, sent, emails, ledger,
          pc, args, todo, message_list, idx, flight_messages, message_ids, err,
          calls, cur_statuses, prev_p1, dry_run_enabled, func_calls, wrapper_log,
          retry, checkpoints, conn, twin, pure>>

remote == <<mailbox, search_result, label_exists, labeled, sent>>
store == <<emails, ledger>>
history == <<cur_statuses, prev_p1>>
orchestrator == <<pc, args, todo, message_list, idx, flight_messages, message_ids,
                  err, calls>>
\* the state of the helpers in utils/, exercised on their own
dryrun == <<dry_run_enabled, func_calls, wrapper_log>>
utils == <<dryrun, retry>>
scope == <<checkpoints, conn>>
aux == <<utils, scope, twin, pure>>

\* what a message is: classified as a flight confirmation or not, and the
\* booking reference the parser extracts from it
PnrAb == <<"A", "b">>
PnraB == <<"a", "B">>
Flight(pnr) == [flight |-> TRUE, pnr |-> pnr]
NotFlight == [flight |-> FALSE, pnr |-> None]

\* The mailboxes considered: message 1 is a flight confirmation with a
\* reference, message 2 is a second confirmation of the same booking (the
\* reference in another case) or no confirmation at all, further messages
\* are confirmations without a reference.
Mailboxes ==
    {mb \in [Msgs -> {Flight(PnrAb), Flight(PnraB), Flight(None), NotFlight}] :
        \A m \in Msgs :
            /\ m = 1 => mb[m] = Flight(PnrAb)
            /\ m = 2 => mb[m] \in {Flight(PnraB), NotFlight}
            /\ m > 2 => mb[m] = Flight(None)}

NoArgs == [dry_run |-> FALSE, deduplicate |-> FALSE]
NoSummary == [done |-> FALSE, statuses |-> {}]
NoRetry == [pc |-> "idle", max_retries |-> 0, n |-> 0, attempts |-> << >>,
            waits |-> << >>, error |-> None]
NoOp == [name |-> "none", message_id |-> 0, phase |-> "none", status |-> "none",
         pnr |-> None]
NoConn == [stage |-> "none", open |-> FALSE, op |-> NoOp, txn |-> << >>,
           outcome |-> "none", count |-> 0]
NoTwin == [stage |-> "off", oracle |-> << >>, before |-> << >>, after_dry |-> << >>]
NoCall == [fn |-> "none", input |-> << >>, output |-> << >>]

\* what the search can list: any ids in any order, repeats included
SearchResults == UNION {[1..n -> Msgs] : n \in 0..MaxList}

\* nothing has run yet: an empty store, no process, no helper in use
Idle ==
    /\ label_exists = FALSE
    /\ labeled = {}
    /\ sent = {}
    /\ emails = [m \in Msgs |-> NoRow]
    /\ ledger = << >>
    /\ pc = "idle"
    /\ args = NoArgs
    /\ todo = << >>
    /\ message_list = << >>
    /\ idx = 1
    /\ flight_messages = << >>
    /\ message_ids = << >>
    /\ err = None
    /\ calls = {}
    /\ cur_statuses = {}
    /\ prev_p1 = NoSummary
    /\ dry_run_enabled = FALSE
    /\ func_calls = << >>
    /\ wrapper_log = << >>
    /\ retry = NoRetry
    /\ checkpoints = << >>
    /\ conn = NoConn
    /\ twin = NoTwin

Init ==
    /\ mailbox \in Mailboxes
    /\ search_result \in SearchResults
    /\ Idle
    /\ pure = NoCall

\* the process ends: locals are gone, the store and the mailbox stay
ProcessExit ==
    /\ pc' = "idle"
    /\ args' = NoArgs
    /\ todo' = << >>
    /\ message_list' = << >>
    /\ idx' = 1
    /\ flight_messages' = << >>
    /\ message_ids' = << >>
    /\ err' = None

\* main(): parse the arguments, enable dry-run, run the requested phases
\* (--phase 1, 2 or all) one after the other
PhaseLists == {<<"1">>, <<"2">>, <<"1", "2">>}
EntryOf(phase) == IF phase = "1" THEN "p1_begin" ELSE "p2_select"

Main(phases, dry_run, deduplicate) ==
    /\ pc = "idle"
    /\ "2" \notin Range(phases) => deduplicate    \* the flag is read by phase 2 only
    /\ args' = [dry_run |-> dry_run, deduplicate |-> deduplicate]
    /\ pc' = EntryOf(Head(phases))
    /\ todo' = Tail(phases)
    /\ calls' = {}
    /\ UNCHANGED <<remote, store, message_list, idx, flight_messages,
                   message_ids, err, history>>
    /\ UNCHANGED aux

\* a phase function returns into main(): the next phase, or show_stats and
\* the end of the process
PhaseReturn ==
    IF todo # << >>
    THEN /\ pc' = EntryOf(Head(todo))
         /\ todo' = Tail(todo)
         /\ message_list' = << >>
         /\ idx' = 1
         /\ flight_messages' = << >>
         /\ message_ids' = << >>
         /\ err' = None
         /\ UNCHANGED args
    ELSE ProcessExit

\* phase1_label_emails up to the loop: label_manager.get_or_create_label
\* (not dry-run gated: lists the labels and creates the label when it is
\* missing), then searcher.list_messages_with_pagination; "No messages
\* found" returns
Phase1Begin ==
    /\ pc = "p1_begin"
    /\ label_exists' = TRUE
    /\ calls' = {<<"labels.list", 0>>, <<"messages.list", 0>>}
                 \cup IF label_exists THEN {} ELSE {<<"labels.create", 0>>}
    /\ cur_statuses' = {}
    /\ IF search_result = << >>
       THEN /\ prev_p1' = [done |-> TRUE, statuses |-> {}]
            /\ PhaseReturn
       ELSE /\ message_list' = search_result
            /\ idx' = 1
            /\ flight_messages' = << >>
            /\ pc' = "p1_loop"
            /\ UNCHANGED <<args, todo, message_ids, err, prev_p1>>
    /\ UNCHANGED <<mailbox, search_result, labeled, sent, store>>
    /\ UNCHANGED aux

InLoop1 == pc = "p1_loop" /\ idx <= Len(message_list)
msg_id == message_list[idx]

\* "already processed, skipping"
Phase1Skip ==
    /\ InLoop1
    /\ is_email_processed(ledger, msg_id, PHASE1_LABEL)
    /\ idx' = idx + 1
    /\ calls' = {}
    /\ err' = None
    /\ UNCHANGED <<remote, store, pc, args, todo, message_list, flight_messages,
                   message_ids, history>>
    /\ UNCHANGED aux

\* Variant: the handler records the failure and leaves the loop (break)
Phase1Handler_break(e) ==
    /\ Len(ledger) < MaxEvents
    /\ ledger' = mark_email_processed(ledger, msg_id, PHASE1_LABEL, FAILED, e)
    /\ cur_statuses' = cur_statuses \cup {FAILED}
    /\ err' = e
    /\ idx' = Len(message_list) + 1
    /\ pc' = "p1_loop"

\* except Exception as e: mark FAILED with str(e); the loop goes on
Phase1Handler(e) ==
    /\ Len(ledger) < MaxEvents
    /\ ledger' = mark_email_processed(ledger, msg_id, PHASE1_LABEL, FAILED, e)
    /\ cur_statuses' = cur_statuses \cup {FAILED}
    /\ err' = e
    /\ idx' = idx + 1
    /\ pc' = "p1_loop"

\* searcher.get_message raises, or extract_email_content, classifier.classify
\* or parser.parse does after the fetch
Phase1TryRaises ==
    /\ InLoop1
    /\ ~ is_email_processed(ledger, msg_id, PHASE1_LABEL)
    /\ calls' = {<<"messages.get", msg_id>>}
    /\ Phase1Handler(ErrHttp)
    /\ UNCHANGED <<remote, emails, args, todo, message_list, flight_messages,
                   message_ids, prev_p1>>
    /\ UNCHANGED aux

\* Variant: a record is saved for every fetched message, flight or not
Phase1NotFlight_saves_record(write_ok) ==
    /\ InLoop1
    /\ ~ is_email_processed(ledger, msg_id, PHASE1_LABEL)
    /\ ~ mailbox[msg_id].flight
    /\ calls' = {<<"messages.get", msg_id>>}
    /\ emails' = save_email(emails, msg_id, None)
    /\ IF write_ok
       THEN /\ Len(ledger) < MaxEvents
            /\ ledger' = mark_email_processed(ledger, msg_id, PHASE1_LABEL, SKIPPED, None)
            /\ cur_statuses' = cur_statuses \cup {SKIPPED}
            /\ idx' = idx + 1
            /\ err' = None
            /\ UNCHANGED pc
       ELSE Phase1Handler(ErrStore)
    /\ UNCHANGED <<remote, args, todo, message_list, flight_messages,
                   message_ids, prev_p1>>
    /\ UNCHANGED aux

\* not a flight confirmation: mark SKIPPED (the write may raise)
Phase1NotFlight(write_ok) ==
    /\ InLoop1
    /\ ~ is_email_processed(ledger, msg_id, PHASE1_LABEL)
    /\ ~ mailbox[msg_id].flight
    /\ calls' = {<<"messages.get", msg_id>>}
    /\ IF write_ok
       THEN /\ Len(ledger) < MaxEvents
            /\ ledger' = mark_email_processed(ledger, msg_id, PHASE1_LABEL, SKIPPED, None)
            /\ cur_statuses' = cur_statuses \cup {SKIPPED}
            /\ idx' = idx + 1
            /\ err' = None
            /\ UNCHANGED pc
       ELSE Phase1Handler(ErrStore)
    /\ UNCHANGED <<remote, emails, args, todo, message_list, flight_messages,
                   message_ids, prev_p1>>
    /\ UNCHANGED aux

\* flight confirmation: parse and save_email (the write may raise)
Phase1SaveFlight(write_ok) ==
    /\ InLoop1
    /\ ~ is_email_processed(ledger, msg_id, PHASE1_LABEL)
    /\ mailbox[msg_id].flight
    /\ calls' = {<<"messages.get", msg_id>>}
    /\ IF write_ok
       THEN /\ emails' = save_email(emails, msg_id, mailbox[msg_id].pnr)
            /\ pc' = "p1_saved"
            /\ err' = None
            /\ UNCHANGED <<ledger, idx, cur_statuses>>
       ELSE /\ Phase1Handler(ErrStore)
            /\ UNCHANGED emails
    /\ UNCHANGED <<remote, args, todo, message_list, flight_messages,
                   message_ids, prev_p1>>
    /\ UNCHANGED aux

\* Variant: the store is dry-run gated - under dry-run the SUCCESS event is
\* logged, not written
Phase1MarkSuccess_dry_run_gated(write_ok) ==
    /\ pc = "p1_saved"
    /\ flight_messages' = Append(flight_messages, msg_id)
    /\ calls' = {}
    /\ IF args.dry_run
       THEN /\ idx' = idx + 1
            /\ pc' = "p1_loop"
            /\ err' = None
            /\ UNCHANGED <<ledger, cur_statuses>>
       ELSE IF write_ok
       THEN /\ Len(ledger) < MaxEvents
            /\ ledger' = mark_email_processed(ledger, msg_id, PHASE1_LABEL, SUCCESS, None)
            /\ UNCHANGED cur_statuses
            /\ idx' = idx + 1
            /\ pc' = "p1_loop"
            /\ err' = None
       ELSE Phase1Handler(ErrStore)
    /\ UNCHANGED <<remote, emails, args, todo, message_list, message_ids, prev_p1>>
    /\ UNCHANGED aux

\* flight_messages.append(msg_id); mark SUCCESS (the write may raise)
Phase1MarkSuccess(write_ok) ==
    /\ pc = "p1_saved"
    /\ flight_messages' = Append(flight_messages, msg_id)
    /\ calls' = {}
    /\ IF write_ok
       THEN /\ Len(ledger) < MaxEvents
            /\ ledger' = mark_email_processed(ledger, msg_id, PHASE1_LABEL, SUCCESS, None)
            /\ UNCHANGED cur_statuses
            /\ idx' = idx + 1
            /\ pc' = "p1_loop"
            /\ err' = None
       ELSE Phase1Handler(ErrStore)
    /\ UNCHANGED <<remote, emails, args, todo, message_list, message_ids, prev_p1>>
    /\ UNCHANGED aux

\* after the sweep: apply the label to the batch unless dry-run, then return
Phase1ApplyLabel ==
    /\ pc = "p1_loop"
    /\ idx > Len(message_list)
    /\ IF flight_messages # << >> /\ ~ args.dry_run
       THEN /\ labeled' = labeled \cup Range(flight_messages)
            /\ calls' = {<<"messages.batchModify", m>> : m \in Range(flight_messages)}
       ELSE /\ calls' = {}
            /\ UNCHANGED labeled
    /\ prev_p1' = [done |-> TRUE, statuses |-> cur_statuses]
    /\ cur_statuses' = {}
    /\ PhaseReturn
    /\ UNCHANGED <<mailbox, search_result, label_exists, sent, store>>
    /\ UNCHANGED aux

\* phase2_forward_emails: select, "No emails to forward" returns, deduplicate
Phase2Select ==
    /\ pc = "p2_select"
    /\ calls' = {}
    /\ \E selected \in get_unprocessed_emails(emails, ledger, PHASE2_FORWARD) :
          IF selected = << >>
          THEN PhaseReturn
          ELSE /\ message_ids' =
                      LET unique_emails == IF args.deduplicate
                                           THEN get_unique_emails(selected, FUZZY_THRESHOLD)
                                           ELSE selected
                      IN  [i \in DOMAIN unique_emails |-> unique_emails[i].message_id]
               /\ idx' = 1
               /\ pc' = "p2_loop"
               /\ UNCHANGED <<args, todo, message_list, flight_messages, err>>
    /\ UNCHANGED <<remote, store, history>>
    /\ UNCHANGED aux

fwd_id == message_ids[idx]

\* Variant: the handler only logs the error, no event is recorded
Phase2Handler_log_only(e) ==
    /\ ledger' = ledger
    /\ err' = e
    /\ idx' = idx + 1
    /\ pc' = "p2_loop"

\* except Exception as e: mark FAILED with str(e); the loop goes on
Phase2Handler(e) ==
    /\ Len(ledger) < MaxEvents
    /\ ledger' = mark_email_processed(ledger, fwd_id, PHASE2_FORWARD, FAILED, e)
    /\ err' = e
    /\ idx' = idx + 1
    /\ pc' = "p2_loop"

\* forwarder.forward_message: under dry-run the wrapper returns the canned
\* value; otherwise get raw, get full, send - or the call raises
Phase2Forward(call_ok) ==
    /\ pc = "p2_loop"
    /\ idx <= Len(message_ids)
    /\ IF args.dry_run
       THEN /\ call_ok
            /\ calls' = {}
            /\ pc' = "p2_forwarded"
            /\ err' = None
            /\ UNCHANGED <<sent, ledger, idx>>
       ELSE IF call_ok
       THEN /\ sent' = sent \cup {fwd_id}
            /\ calls' = {<<"messages.get", fwd_id>>, <<"messages.send", fwd_id>>}
            /\ pc' = "p2_forwarded"
            /\ err' = None
            /\ UNCHANGED <<ledger, idx>>
       ELSE /\ calls' = {<<"messages.get", fwd_id>>}
            /\ Phase2Handler(ErrHttp)
            /\ UNCHANGED sent
    /\ UNCHANGED <<mailbox, search_result, label_exists, labeled, emails, args,
                   todo, message_list, flight_messages, message_ids, history>>
    /\ UNCHANGED aux

\* mark SUCCESS after forward_message returned (the write may raise)
Phase2MarkSuccess(write_ok) ==
    /\ pc = "p2_forwarded"
    /\ calls' = {}
    /\ IF write_ok
       THEN /\ Len(ledger) < MaxEvents
            /\ ledger' = mark_email_processed(ledger, fwd_id, PHASE2_FORWARD, SUCCESS, None)
            /\ idx' = idx + 1
            /\ pc' = "p2_loop"
            /\ err' = None
       ELSE Phase2Handler(ErrStore)
    /\ UNCHANGED <<remote, emails, args, todo, message_list, flight_messages,
                   message_ids, history>>
    /\ UNCHANGED aux

\* "Phase 2 complete!" and back to main()
Phase2Return ==
    /\ pc = "p2_loop"
    /\ idx > Len(message_ids)
    /\ calls' = {}
    /\ PhaseReturn
    /\ UNCHANGED <<remote, store, history>>
    /\ UNCHANGED aux

\* The process ends before main() returns: it is killed, or an exception
\* reaches main() (a remote call outside the per-message try, a store call
\* outside it, or the handler's own mark_email_processed).
Interrupt ==
    /\ pc # "idle"
    /\ calls' = {}
    /\ ProcessExit
    /\ cur_statuses' = {}
    /\ prev_p1' = IF pc \in {"p2_select", "p2_loop", "p2_forwarded"}
                  THEN prev_p1 ELSE NoSummary
    /\ UNCHANGED <<remote, store>>
    /\ UNCHANGED aux

\* every step of a running process
Steps ==
    \/ Phase1Begin
    \/ Phase1Skip
    \/ Phase1TryRaises
    \/ \E write_ok \in BOOLEAN : Phase1NotFlight(write_ok)
    \/ \E write_ok \in BOOLEAN : Phase1SaveFlight(write_ok)
    \/ \E write_ok \in BOOLEAN : Phase1MarkSuccess(write_ok)
    \/ Phase1ApplyLabel
    \/ Phase2Select
    \/ \E call_ok \in BOOLEAN : Phase2Forward(call_ok)
    \/ \E write_ok \in BOOLEAN : Phase2MarkSuccess(write_ok)
    \/ Phase2Return
    \/ Interrupt

Next ==
    \/ \E phases \in PhaseLists, dry_run \in BOOLEAN, deduplicate \in BOOLEAN :
          Main(phases, dry_run, deduplicate)
    \/ Steps

Spec == Init /\ [][Next]_vars

\* every run keeps the default --deduplicate
NextDedup ==
    \/ \E phases \in PhaseLists, dry_run \in BOOLEAN : Main(phases, dry_run, TRUE)
    \/ Steps

SpecDedup == Init /\ [][NextDedup]_vars

\* ---------------------------------------------- the store under any client
\* The StateManager called directly, as the unit tests do: any message id,
\* phase, status and reference, in any order.
StorePnrs == {None, PnrAb, PnraB}

SaveEmail(message_id, pnr) ==
    /\ emails' = save_email(emails, message_id, pnr)
    /\ UNCHANGED <<remote, ledger, pc, args, todo, message_list, idx,
                   flight_messages, message_ids, err, calls, history>>
    /\ UNCHANGED aux

MarkEmailProcessed(message_id, phase, status) ==
    /\ Len(ledger) < MaxEvents
    /\ ledger' = mark_email_processed(ledger, message_id, phase, status,
                                      IF status = FAILED THEN ErrParse ELSE None)
    /\ UNCHANGED <<remote, emails, pc, args, todo, message_list, idx,
                   flight_messages, message_ids, err, calls, history>>
    /\ UNCHANGED aux

InitStore ==
    /\ Init
    /\ search_result = << >>
    /\ mailbox = [m \in Msgs |-> IF m = 1 THEN Flight(PnrAb)
                                 ELSE IF m = 2 THEN NotFlight ELSE Flight(None)]

NextStore ==
    \/ \E m \in Msgs, pnr \in StorePnrs : SaveEmail(m, pnr)
    \/ \E m \in Msgs, phase \in Phases, status \in Statuses :
          MarkEmailProcessed(m, phase, status)

SpecStore == InitStore /\ [][NextStore]_vars

\* ------------------------------------- the connection scope of an operation
\* Every StateManager method runs its statement inside "with
\* self.get_connection() as conn": connect, the body, then commit - or, on an
\* exception of the body or of the commit, rollback and re-raise - and close
\* in the finally clause.  The process may die at any point of the scope.
MaxOps == 3

\* StateManager.get_email: the row as a dict, or None
get_email(tbl, message_id) ==
    IF tbl[message_id].present THEN <<"row", tbl[message_id].pnr>> ELSE None

\* sync_checkpoints row; failed_message_ids is json.dumps of the list
Checkpoint(last_message_id, status, failed_message_ids, message) ==
    [last_synced_message_id |-> last_message_id, status |-> status,
     failed_message_ids |-> failed_message_ids, message |-> message]

\* StateManager.save_checkpoint: INSERT INTO sync_checkpoints
save_checkpoint(cps, last_message_id, status, failed_message_ids, message) ==
    Append(cps, Checkpoint(last_message_id, status, failed_message_ids, message))

\* Variant: ORDER BY id ASC - the oldest checkpoint
get_last_checkpoint_oldest(cps) ==
    IF cps = << >> THEN None ELSE <<"row", cps[1]>>

\* StateManager.get_last_checkpoint: ORDER BY id DESC LIMIT 1, the row as a
\* dict, or None
get_last_checkpoint(cps) ==
    IF cps = << >> THEN None ELSE <<"row", cps[Len(cps)]>>

\* the operations and their arguments
Op(name, message_id, phase, status, pnr) ==
    [name |-> name, message_id |-> message_id, phase |-> phase, status |-> status,
     pnr |-> pnr]

Ops ==
    {Op("save_email", m, "none", "none", pnr) : m \in Msgs, pnr \in StorePnrs}
    \cup {Op("mark_email_processed", m, PHASE1_LABEL, status, None) :
              m \in Msgs, status \in Statuses}
    \cup {Op("save_checkpoint", m, "none", "COMPLETED", None) : m \in Msgs}
    \cup {Op("get_email", m, "none", "none", None) : m \in Msgs}
    \cup {Op("get_last_checkpoint", 0, "none", "none", None)}

\* the database: what is committed, or what a connection sees
Database(tbl, led, cps) == [emails |-> tbl, ledger |-> led, checkpoints |-> cps]

\* the statement of the operation, executed on what the connection sees
Execute(op, db) ==
    CASE op.name = "save_email" ->
             [db EXCEPT !.emails = save_email(@, op.message_id, op.pnr)]
      [] op.name = "mark_email_processed" ->
             [db EXCEPT !.ledger = mark_email_processed(@, op.message_id, op.phase, op.status,
                                       IF op.status = FAILED THEN ErrParse ELSE None)]
      [] op.name = "save_checkpoint" ->
             [db EXCEPT !.checkpoints = save_checkpoint(@, op.message_id, op.status, << >>, None)]
      [] OTHER -> db

\* conn.commit(): the database becomes what the connection sees
commit(db, txn) == txn

\* Variant: the except clause commits what was executed before it re-raises
rollback_keeps_writes(db, txn) == txn

\* conn.rollback(): the database stays as committed
rollback(db, txn) == db

Committed == Database(emails, ledger, checkpoints)

\* sqlite3.connect and entry into the with block
Connect(op) ==
    /\ conn.stage = "none"
    /\ conn.count < MaxOps
    /\ conn' = [stage |-> "body", open |-> TRUE, op |-> op, txn |-> Committed,
                outcome |-> "none", count |-> conn.count + 1]
    /\ UNCHANGED <<remote, store, orchestrator, history, utils, checkpoints, twin, pure>>

\* the body: conn.execute(...) runs the statement or raises
Body(ok) ==
    /\ conn.stage = "body"
    /\ IF ok
       THEN conn' = [conn EXCEPT !.stage = "body_done", !.txn = Execute(conn.op, @)]
       ELSE conn' = [conn EXCEPT !.stage = "except"]
    /\ UNCHANGED <<remote, store, orchestrator, history, utils, checkpoints, twin, pure>>

\* after the yield: conn.commit(), which may raise
Commit(ok) ==
    /\ conn.stage = "body_done"
    /\ IF ok
       THEN /\ emails' = commit(Committed, conn.txn).emails
            /\ ledger' = commit(Committed, conn.txn).ledger
            /\ checkpoints' = commit(Committed, conn.txn).checkpoints
            /\ conn' = [conn EXCEPT !.stage = "finally", !.outcome = "returned"]
       ELSE /\ conn' = [conn EXCEPT !.stage = "except"]
            /\ UNCHANGED <<store, checkpoints>>
    /\ UNCHANGED <<remote, orchestrator, history, utils, twin, pure>>

\* except Exception: conn.rollback(); raise
Rollback ==
    /\ conn.stage = "except"
    /\ emails' = rollback(Committed, conn.txn).emails
    /\ ledger' = rollback(Committed, conn.txn).ledger
    /\ checkpoints' = rollback(Committed, conn.txn).checkpoints
    /\ conn' = [conn EXCEPT !.stage = "finally", !.outcome = "raised", !.txn = Committed]
    /\ UNCHANGED <<remote, orchestrator, history, utils, twin, pure>>

\* finally: conn.close()
Close ==
    /\ conn.stage = "finally"
    /\ conn' = [conn EXCEPT !.stage = "none", !.open = FALSE, !.txn = << >>]
    /\ UNCHANGED <<remote, store, orchestrator, history, utils, checkpoints, twin, pure>>

\* the process dies inside the scope: what was not committed is lost
Crash ==
    /\ conn.stage # "none"
    /\ conn' = [conn EXCEPT !.stage = "none", !.open = FALSE, !.txn = << >>,
                            !.outcome = IF conn.outcome = "returned" THEN "returned"
                                        ELSE "crashed"]
    /\ UNCHANGED <<remote, store, orchestrator, history, utils, checkpoints, twin, pure>>

NextConn ==
    \/ \E op \in Ops : Connect(op)
    \/ \E ok \in BOOLEAN : Body(ok)
    \/ \E ok \in BOOLEAN : Commit(ok)
    \/ Rollback
    \/ Close
    \/ Crash

SpecConn == InitStore /\ [][NextConn]_vars

\* ------------------------------------------------- utils/dry_run.py alone
\* The decorator exercised as the unit tests do: two wrapped functions,
\*   @dry_run_safe(return_value=None)              def add(a, b): return a + b
\*   @dry_run_safe(return_value="dry-run-result")  def sample_operation(): return "real-result"
\* called in any order with DryRunManager.enable() / disable() in between.
MaxCalls == 3

WrappedFuncs == {"add", "sample_operation"}
ArgsOf(func) == IF func = "add" THEN {<<2, 3>>, <<1, 1>>} ELSE {<< >>}

\* the return_value the decorator was given
ReturnValueOf(func) == IF func = "add" THEN None ELSE <<"dry-run-result">>

\* the body of the wrapped function; an integer result n is <<"int", n>>
Func(func, a) == IF func = "add" THEN <<"int", a[1] + a[2]>> ELSE <<"real-result">>

\* Variant: the wrapped function runs in both modes, only the returned value
\* depends on the flag
wrapper_always_invokes(enabled, func, a) ==
    IF enabled
    THEN [invoked |-> <<[func |-> func, args |-> a]>>, value |-> ReturnValueOf(func)]
    ELSE [invoked |-> <<[func |-> func, args |-> a]>>, value |-> Func(func, a)]

\* dry_run_safe's wrapper(*args): what it invokes and what it returns, given
\* DryRunManager.is_enabled() at the time of the call
wrapper(enabled, func, a) ==
    IF enabled
    THEN [invoked |-> << >>, value |-> ReturnValueOf(func)]
    ELSE [invoked |-> <<[func |-> func, args |-> a]>>, value |-> Func(func, a)]

\* DryRunManager.enable()
Enable ==
    /\ dry_run_enabled' = TRUE
    /\ UNCHANGED <<remote, store, orchestrator, history, func_calls, wrapper_log, retry, scope, twin, pure>>

\* DryRunManager.disable()
Disable ==
    /\ dry_run_enabled' = FALSE
    /\ UNCHANGED <<remote, store, orchestrator, history, func_calls, wrapper_log, retry, scope, twin, pure>>

\* one call of a wrapped function
CallWrapped(func, a) ==
    /\ Len(wrapper_log) < MaxCalls
    /\ LET r == wrapper(dry_run_enabled, func, a)
       IN  /\ func_calls' = func_calls \o r.invoked
           /\ wrapper_log' = Append(wrapper_log, [func |-> func, args |-> a, value |-> r.value])
    /\ UNCHANGED <<remote, store, orchestrator, history, dry_run_enabled, retry, scope, twin, pure>>

NextDryRun ==
    \/ Enable
    \/ Disable
    \/ \E func \in WrappedFuncs : \E a \in ArgsOf(func) : CallWrapped(func, a)

SpecDryRun == InitStore /\ [][NextDryRun]_vars

\* --------------------------------------------------- utils/retry.py alone
\* One call of make_request_with_backoff(request_func, max_retries); what each
\* invocation of request_func does is chosen when it happens.  The default
\* max_retries is 5.
MaxRetries == 5

\* what an invocation of request_func does: return, raise HttpError with a
\* status, raise ConnectionError
Returns == <<"ok">>
HttpError(status) == <<"HttpError", status>>
ConnectionError == <<"ConnectionError">>
HttpStatuses == {400, 401, 403, 404, 429, 500, 503}
Raises == {HttpError(status) : status \in HttpStatuses} \cup {ConnectionError}

RECURSIVE Pow2(_)
Pow2(k) == IF k = 0 THEN 1 ELSE 2 * Pow2(k - 1)

\* Variant: every HttpError is worth a retry
IsTransient_any_status(e) == e[1] = "HttpError"

\* except HttpError as error: if error.resp.status in [403, 429, 500, 503]
IsTransient(e) == e[1] = "HttpError" /\ e[2] \in {403, 429, 500, 503}

\* Variant: the last attempt is taken to be the one after the loop
IsLastAttempt_off_by_one(k, max_retries) == k = max_retries

\* if n == max_retries - 1
IsLastAttempt(k, max_retries) == k = max_retries - 1

\* the call: for n in range(max_retries)
MakeRequestWithBackoff(max_retries) ==
    /\ retry.pc = "idle"
    /\ retry' = [pc |-> "running", max_retries |-> max_retries, n |-> 0,
                 attempts |-> << >>, waits |-> << >>, error |-> None]
    /\ UNCHANGED <<remote, store, orchestrator, history, dryrun, scope, twin, pure>>

\* return request_func()
RequestReturns ==
    /\ retry.pc = "running"
    /\ retry.n < retry.max_retries
    /\ retry' = [retry EXCEPT !.pc = "returned",
                              !.attempts = Append(@, Returns)]
    /\ UNCHANGED <<remote, store, orchestrator, history, dryrun, scope, twin, pure>>

\* request_func() raises e: a transient HttpError is re-raised on the last
\* attempt and otherwise waited out (2 ** n plus jitter below one second)
\* before the next iteration; any other exception leaves the function
RequestRaises(e) ==
    /\ retry.pc = "running"
    /\ retry.n < retry.max_retries
    /\ IF IsTransient(e) /\ ~ IsLastAttempt(retry.n, retry.max_retries)
       THEN retry' = [retry EXCEPT !.attempts = Append(@, e),
                                   !.waits = Append(@, Pow2(retry.n)),
                                   !.n = @ + 1]
       ELSE retry' = [retry EXCEPT !.pc = "raised",
                                   !.attempts = Append(@, e),
                                   !.error = e]
    /\ UNCHANGED <<remote, store, orchestrator, history, dryrun, scope, twin, pure>>

\* the loop is over without a return or a raise: the function returns None
LoopExhausted ==
    /\ retry.pc = "running"
    /\ retry.n >= retry.max_retries
    /\ retry' = [retry EXCEPT !.pc = "returned"]
    /\ UNCHANGED <<remote, store, orchestrator, history, dryrun, scope, twin, pure>>

RetryStep ==
    \/ RequestReturns
    \/ \E e \in Raises : RequestRaises(e)
    \/ LoopExhausted

NextRetry ==
    \/ \E max_retries \in 0..MaxRetries : MakeRequestWithBackoff(max_retries)
    \/ RequestReturns
    \/ \E e \in Raises : RequestRaises(e)
    \/ LoopExhausted

SpecRetry == InitStore /\ [][NextRetry]_vars

\* a call in progress goes on: the waits are finite and request_func ends
SpecRetryFair == SpecRetry /\ WF_vars(RetryStep)

\* ------------------------------------- a dry-run and a normal run compared
\* Phase 1 is run twice from the same store, over the same search result and
\* with the same outcome for each listed message: first with --dry-run, then,
\* on a copy of the database as it was before that run, without.  The store
\* the runs start from is left by any earlier phase 1 runs.
Outcomes == {"ok", "fetch_raises", "save_fails", "mark_fails"}
Oracles == [1..MaxList -> Outcomes]

\* the run in progress is free (an earlier run) or follows the outcomes
Follows(outcomes) ==
    twin.stage = "off" \/ (idx \in DOMAIN twin.oracle /\ twin.oracle[idx] \in outcomes)

TwinMain(dry_run) ==
    /\ \/ twin.stage = "off"
       \/ twin.stage = "dry" /\ dry_run /\ ~ prev_p1.done
       \/ twin.stage = "normal" /\ ~ dry_run /\ ~ prev_p1.done
    /\ Main(<<"1">>, dry_run, TRUE)

TwinTryRaises == Follows({"fetch_raises"}) /\ Phase1TryRaises
TwinNotFlight(write_ok) ==
    /\ Follows(IF write_ok THEN {"ok", "save_fails"} ELSE {"mark_fails"})
    /\ Phase1NotFlight(write_ok)
TwinSaveFlight(write_ok) ==
    /\ Follows(IF write_ok THEN {"ok", "mark_fails"} ELSE {"save_fails"})
    /\ Phase1SaveFlight(write_ok)
TwinMarkSuccess(write_ok) ==
    /\ Follows(IF write_ok THEN {"ok"} ELSE {"mark_fails"})
    /\ Phase1MarkSuccess(write_ok)
TwinInterrupt == twin.stage = "off" /\ Interrupt

\* the database file is copied and the outcomes of the two runs are fixed
TwinSnapshot(oracle) ==
    /\ twin.stage = "off"
    /\ pc = "idle"
    /\ twin' = [stage |-> "dry", oracle |-> oracle, before |-> <<emails, ledger>>,
                after_dry |-> << >>]
    /\ prev_p1' = NoSummary
    /\ UNCHANGED <<remote, store, orchestrator, cur_statuses, utils, scope, pure>>

\* the dry-run run has completed: its store is kept aside and the copy taken
\* before it is put back
TwinRewind ==
    /\ twin.stage = "dry"
    /\ pc = "idle"
    /\ prev_p1.done
    /\ twin' = [twin EXCEPT !.stage = "normal", !.after_dry = <<emails, ledger>>]
    /\ emails' = twin.before[1]
    /\ ledger' = twin.before[2]
    /\ prev_p1' = NoSummary
    /\ UNCHANGED <<remote, orchestrator, cur_statuses, utils, scope, pure>>

NextTwin ==
    \/ \E dry_run \in BOOLEAN : TwinMain(dry_run)
    \/ Phase1Begin
    \/ Phase1Skip
    \/ TwinTryRaises
    \/ \E write_ok \in BOOLEAN : TwinNotFlight(write_ok)
    \/ \E write_ok \in BOOLEAN : TwinSaveFlight(write_ok)
    \/ \E write_ok \in BOOLEAN : TwinMarkSuccess(write_ok)
    \/ Phase1ApplyLabel
    \/ TwinInterrupt
    \/ \E oracle \in Oracles : TwinSnapshot(oracle)
    \/ TwinRewind

SpecTwin == Init /\ [][NextTwin]_vars

\* ------------------------------------------- dedup/deduplicator.py alone
\* The three methods of Deduplicator applied to lists of records.  A record
\* is [message_id, pnr]; the message ids of a list are distinct (message_id
\* is the primary key of the emails table).
MaxRecords == 3

\* two references of 9 and 10 characters that differ in the last one only
Pnr9 == <<"A", "B", "C", "D", "A", "B", "C", "D", "A">>
Pnr10 == Pnr9 \o <<"B">>
PnrAc == <<"A", "c">>
\* a reference that matches "Ac" at threshold 50 (ratio 67) and not "Ab"
PnrC == <<"C">>
DedupPnrs == {None, << >>, PnrAb, PnraB, PnrAc, PnrC, Pnr9, Pnr10}

\* Deduplicator(fuzzy_threshold): the values tried for self.fuzzy_threshold
Thresholds == {0, 50, FUZZY_THRESHOLD, 100, 101}

RecordLists ==
    UNION {{[i \in 1..n |-> [message_id |-> i, pnr |-> f[i]]] : f \in [1..n -> DedupPnrs]} :
              n \in 0..MaxRecords}

\* Variant: the known reference with the highest ratio is taken, the first
\* of them on a tie
FirstKnown_best_match(processed_pnrs, pnr_upper, threshold) ==
    LET hits == {k \in DOMAIN processed_pnrs :
                    are_pnrs_duplicate(pnr_upper, processed_pnrs[k].pnr, threshold)}
        best == {k \in hits :
                    \A h \in hits : Ratio(pnr_upper, processed_pnrs[k].pnr)
                                       >= Ratio(pnr_upper, processed_pnrs[h].pnr)}
    IN  IF hits = {} THEN 0 ELSE CHOOSE k \in best : \A h \in best : k <= h

\* the first key of processed_pnrs, in insertion order, that the reference
\* matches ("break" at the first match); 0 when the loop ends without one
FirstKnown(processed_pnrs, pnr_upper, threshold) ==
    LET hits == {k \in DOMAIN processed_pnrs :
                    are_pnrs_duplicate(pnr_upper, processed_pnrs[k].pnr, threshold)}
    IN  IF hits = {} THEN 0 ELSE CHOOSE k \in hits : \A h \in hits : k <= h

\* Deduplicator.find_duplicates: processed_pnrs is the dict in insertion
\* order, an entry [pnr, ids]; duplicates the keys put into the result dict
\* (its values are the same list objects as those of processed_pnrs).
RECURSIVE DuplicatesFrom(_, _, _, _)
DuplicatesFrom(list, processed_pnrs, duplicates, threshold) ==
    IF list = << >>
    THEN {g \in Range(processed_pnrs) : g.pnr \in duplicates /\ Len(g.ids) > 1}
    ELSE LET email == Head(list)
         IN  IF Falsy(email.pnr)
             THEN DuplicatesFrom(Tail(list), processed_pnrs, duplicates, threshold)
             ELSE LET pnr_upper == Upper(email.pnr)
                      k == FirstKnown(processed_pnrs, pnr_upper, threshold)
                  IN  IF k # 0
                      THEN DuplicatesFrom(
                               Tail(list),
                               [processed_pnrs EXCEPT ![k].ids = Append(@, email.message_id)],
                               duplicates \cup {processed_pnrs[k].pnr}, threshold)
                      ELSE DuplicatesFrom(
                               Tail(list),
                               Append(processed_pnrs,
                                      [pnr |-> pnr_upper, ids |-> <<email.message_id>>]),
                               duplicates, threshold)

\* Variant: a group is keyed by the reference of its first member as stored,
\* not upper-cased
find_duplicates_raw_key(list, threshold) ==
    {[pnr |-> (CHOOSE email \in Range(list) : email.message_id = g.ids[1]).pnr,
      ids |-> g.ids] : g \in DuplicatesFrom(list, << >>, {}, threshold)}

find_duplicates(list, threshold) == DuplicatesFrom(list, << >>, {}, threshold)

InitDeduplicator ==
    /\ mailbox = [m \in Msgs |-> NotFlight]
    /\ search_result = << >>
    /\ Idle
    /\ \E emails_list \in RecordLists, threshold \in Thresholds :
          pure = [fn |-> "none",
                  input |-> [emails |-> emails_list, threshold |-> threshold],
                  output |-> << >>]

\* deduplicator.are_pnrs_duplicate on the references of two records
CallArePnrsDuplicate(i, j) ==
    /\ pure.fn = "none"
    /\ i \in DOMAIN pure.input.emails
    /\ j \in DOMAIN pure.input.emails
    /\ LET pnr1 == pure.input.emails[i].pnr
           pnr2 == pure.input.emails[j].pnr
           threshold == pure.input.threshold
       IN  pure' = [fn |-> "are_pnrs_duplicate",
                    input |-> [pnr1 |-> pnr1, pnr2 |-> pnr2, threshold |-> threshold],
                    output |-> are_pnrs_duplicate(pnr1, pnr2, threshold)]
    /\ UNCHANGED <<remote, store, orchestrator, history, utils, scope, twin>>

\* deduplicator.get_unique_emails on the list, or once more on what the
\* previous call returned
CallGetUniqueEmails ==
    /\ pure.fn \in {"none", "get_unique_emails"}
    /\ LET emails_list == IF pure.fn = "none" THEN pure.input.emails ELSE pure.output
           threshold == pure.input.threshold
       IN  pure' = [fn |-> "get_unique_emails",
                    input |-> [emails |-> emails_list, threshold |-> threshold],
                    output |-> get_unique_emails(emails_list, threshold)]
    /\ UNCHANGED <<remote, store, orchestrator, history, utils, scope, twin>>

\* deduplicator.find_duplicates on the list
CallFindDuplicates ==
    /\ pure.fn = "none"
    /\ pure' = [fn |-> "find_duplicates",
                input |-> pure.input,
                output |-> find_duplicates(pure.input.emails, pure.input.threshold)]
    /\ UNCHANGED <<remote, store, orchestrator, history, utils, scope, twin>>

NextDeduplicator ==
    \/ \E i, j \in 1..MaxRecords : CallArePnrsDuplicate(i, j)
    \/ CallGetUniqueEmails
    \/ CallFindDuplicates

SpecDeduplicator == InitDeduplicator /\ [][NextDeduplicator]_vars

\* --------------------------------------------- parsers/classifier.py alone
\* The HTML body of an email, as BeautifulSoup and json.loads present it to
\* the classifier and to the parser: the JSON-LD scripts in document order,
\* each one text that is not JSON, a JSON value that is neither an object nor
\* an array, or a list of items (one object, or the items of an array); the
\* Microdata FlightReservation div; the first table; the text.
MaxScripts == 2
MaxItems == 2

\* a key that an object does not have
Absent == <<"Absent">>
\* reservationStatus values: text as the words it contains, None for null
Confirmed == <<"http://schema.org/", "Confirmed">>
Cancelled == <<"http://schema.org/", "Cancelled">>

\* item.get('reservationFor', {}): no such key ("absent"), a Flight object
\* ("flight"; an airport is its iataCode), or null ("null")
NoFlight == [kind |-> "absent", flightNumber |-> Absent,
             departureAirport |-> Absent, arrivalAirport |-> Absent,
             departureTime |-> Absent, arrivalTime |-> Absent]
Item(type, reservationStatus, reservationNumber, reservationFor) ==
    [type |-> type, reservationStatus |-> reservationStatus,
     reservationNumber |-> reservationNumber, reservationFor |-> reservationFor]

InvalidJson == [json |-> "invalid", items |-> << >>]
ScalarJson == [json |-> "scalar", items |-> << >>]
ItemsJson(items) == [json |-> "items", items |-> items]

\* the Microdata div: its reservationStatus property, the content of its
\* meta elements, the iataCode of its Airport divs in document order
NoMicrodata == [present |-> FALSE, reservationStatus |-> Absent,
                reservationNumber |-> Absent,
                flightNumber |-> Absent, airports |-> << >>]
\* a table: whether its text holds one of the keywords, and the second cell
\* of its booking, flight number, departure airport and arrival airport rows
\* (for an airport row, the three-letter code in the cell)
NoTable == [keywords |-> FALSE, booking |-> Absent, flight_number |-> Absent,
            departure |-> Absent, arrival |-> Absent]
\* a text: None, or what the patterns of extract_flight_info_regex find in
\* it first - the reference after a keyword, the flight number, the pair of
\* codes around "to" - and all its three-letter words in upper case
NoText == [none |-> FALSE, booking |-> Absent, flight |-> Absent,
           route |-> << >>, codes |-> << >>]
NoneText == [NoText EXCEPT !.none = TRUE]
Document(scripts, microdata, table, text) ==
    [markup |-> TRUE, readable |-> TRUE, scripts |-> scripts,
     microdata |-> microdata, table |-> table, text |-> text]
\* html_content = ''
EmptyHtml == [markup |-> FALSE, readable |-> TRUE, scripts |-> << >>,
              microdata |-> NoMicrodata, table |-> NoTable, text |-> NoText]
\* a body on which BeautifulSoup(html, 'lxml') raises
Unreadable == [EmptyHtml EXCEPT !.markup = TRUE, !.readable = FALSE]

SCHEMA_SCORE == 50
DOMAIN_SCORE == 20
SUBJECT_SCORE == 20
MARKERS_SCORE == 10
FLIGHT_SCORE == 50
MARKERS_NEEDED == 3

AIRLINE_DOMAINS ==
    {"united.com", "delta.com", "aa.com", "americanairlines.com", "southwest.com",
     "luv.southwest.com", "jetblue.com", "alaskaair.com", "spirit.com",
     "frontier.com", "expedia.com", "welcomemail.expedia.com", "kayak.com",
     "priceline.com"}
CONFIRMATION_PATTERNS == 1..4
EXCLUSION_PATTERNS == {"cancel", "check-in", "change", "reminder", "expired"}
Markers == {"confirmation_number", "flight_number", "airport_code", "booking_ref"}

\* the items of one script, lines 106-115: "true" at a FlightReservation whose
\* status contains Confirmed, "raise" at one whose status is not text
\* ('Confirmed' in None is a TypeError), "next" at the end of the items
RECURSIVE SchemaInItems(_)
SchemaInItems(items) ==
    IF items = << >> THEN "next"
    ELSE LET item == Head(items)
             status == IF item.reservationStatus = Absent THEN << >>
                       ELSE item.reservationStatus
         IN  IF item.type # "FlightReservation" THEN SchemaInItems(Tail(items))
             ELSE IF status = None THEN "raise"
             ELSE IF "Confirmed" \in Range(status) THEN "true"
             ELSE SchemaInItems(Tail(items))

\* the loop over the scripts, lines 102-117: text that is not JSON raises
\* JSONDecodeError, which the inner handler turns into "continue"
RECURSIVE SchemaInScripts(_)
SchemaInScripts(scripts) ==
    IF scripts = << >> THEN "next"
    ELSE LET found == IF Head(scripts).json = "items"
                      THEN SchemaInItems(Head(scripts).items) ELSE "next"
         IN  IF found = "next" THEN SchemaInScripts(Tail(scripts)) ELSE found

\* FlightClassifier.has_flight_reservation_schema: the outer handler turns
\* any other exception into the final "return False"
has_flight_reservation_schema(html) ==
    LET found == SchemaInScripts(html.scripts)
    IN  IF ~html.readable THEN FALSE
        ELSE IF found = "true" THEN TRUE
        ELSE IF found = "raise" THEN FALSE
        ELSE html.microdata.present

\* FlightClassifier.is_confirmation_subject; a subject is given by the
\* patterns that match it
is_confirmation_subject(subject) ==
    LET has_confirm == \E p \in CONFIRMATION_PATTERNS : p \in subject.confirmation
        has_exclusion == \E p \in EXCLUSION_PATTERNS : p \in subject.exclusion
    IN  has_confirm /\ ~has_exclusion

\* FlightClassifier.is_airline_domain; a sender is given by the domains that
\* occur in its lower-cased address
is_airline_domain(from_email) == \E domain \in AIRLINE_DOMAINS : domain \in from_email.lower

\* FlightClassifier.has_flight_markers; a text is given by the markers that
\* it holds
has_flight_markers(text_content) == Cardinality(text_content \cap Markers) >= MARKERS_NEEDED

\* Variant: a subject that matches an exclusion pattern takes the subject
\* weight off the score
classify_exclusion_penalty(email_data) ==
    LET s1 == IF email_data.html_content.markup
                 /\ has_flight_reservation_schema(email_data.html_content)
              THEN SCHEMA_SCORE ELSE 0
        s2 == IF is_airline_domain(email_data.from_email) THEN DOMAIN_SCORE ELSE 0
        s3 == IF is_confirmation_subject(email_data.subject) THEN SUBJECT_SCORE
              ELSE IF email_data.subject.exclusion # {} THEN 0 - SUBJECT_SCORE ELSE 0
        s4 == IF has_flight_markers(email_data.combined_content) THEN MARKERS_SCORE ELSE 0
        score == s1 + s2 + s3 + s4
    IN  [is_flight |-> score >= FLIGHT_SCORE, score |-> score]

\* FlightClassifier.classify: the tuple (is_flight, score)
classify(email_data) ==
    LET score0 == 0
        score1 == IF email_data.html_content.markup
                     /\ has_flight_reservation_schema(email_data.html_content)
                  THEN score0 + SCHEMA_SCORE ELSE score0
        score2 == IF is_airline_domain(email_data.from_email)
                  THEN score1 + DOMAIN_SCORE ELSE score1
        score3 == IF is_confirmation_subject(email_data.subject)
                  THEN score2 + SUBJECT_SCORE ELSE score2
        score == IF has_flight_markers(email_data.combined_content)
                 THEN score3 + MARKERS_SCORE ELSE score3
    IN  [is_flight |-> score >= FLIGHT_SCORE, score |-> score]

\* the inputs: items, scripts and bodies
ClassifierItems ==
    {Item("Order", Absent, Absent, NoFlight),
     Item("FlightReservation", Confirmed, Absent, NoFlight),
     Item("FlightReservation", Cancelled, Absent, NoFlight),
     Item("FlightReservation", Absent, Absent, NoFlight),
     Item("FlightReservation", None, Absent, NoFlight)}
ItemLists(items) == UNION {[1..n -> items] : n \in 1..MaxItems}
ClassifierScripts == {InvalidJson} \cup {ItemsJson(items) : items \in ItemLists(ClassifierItems)}
\* no FlightReservation div; a div with a Confirmed, with a Cancelled status
ClassifierMicrodatas ==
    {NoMicrodata} \cup
    {[NoMicrodata EXCEPT !.present = TRUE, !.reservationStatus = status] :
        status \in {Confirmed, Cancelled}}
ClassifierBodies ==
    {EmptyHtml, Unreadable} \cup
    {Document(scripts, microdata, NoTable, NoText) :
        scripts \in UNION {[1..n -> ClassifierScripts] : n \in 0..MaxScripts},
        microdata \in ClassifierMicrodatas}
\* '', 'Flight Confirmation - UA123', 'Flight Cancelled - Confirmation',
\* 'Check-in reminder'
Subjects ==
    {[confirmation |-> {}, exclusion |-> {}],
     [confirmation |-> {1}, exclusion |-> {}],
     [confirmation |-> {1}, exclusion |-> {"cancel"}],
     [confirmation |-> {}, exclusion |-> {"check-in", "reminder"}]}
\* 'noreply@UNITED.com', 'friend@example.com'
Senders == {[lower |-> {"united.com"}], [lower |-> {}]}
Contents == {{"flight_number", "airport_code"},
             {"confirmation_number", "flight_number", "airport_code"}}
ClassifierEmails ==
    [subject : Subjects, from_email : Senders, html_content : ClassifierBodies,
     combined_content : Contents]

InitClassifier ==
    /\ mailbox = [m \in Msgs |-> NotFlight]
    /\ search_result = << >>
    /\ Idle
    /\ \E email_data \in ClassifierEmails :
          pure = [fn |-> "none", input |-> email_data, output |-> << >>]

\* classifier.classify(email_data)
CallClassify ==
    /\ pure.fn = "none"
    /\ pure' = [fn |-> "classify", input |-> pure.input, output |-> classify(pure.input)]
    /\ UNCHANGED <<remote, store, orchestrator, history, utils, scope, twin>>

NextClassifier == CallClassify

SpecClassifier == InitClassifier /\ [][NextClassifier]_vars

\* ------------------------------------------- parsers/flight_parser.py alone
\* the dict that a strategy fills; a key it does not have is Absent
NoData == [booking_reference |-> Absent, flight_number |-> Absent,
           departure_airport |-> Absent, arrival_airport |-> Absent,
           departure_time |-> Absent, arrival_time |-> Absent]

\* data[key] = value when the source has the value
SetIf(data, key, value) == IF value = Absent THEN data ELSE [data EXCEPT ![key] = value]

\* "if tag and tag.get('content')": data[key] = value when the attribute is
\* there and is not the empty string
SetIfContent(data, key, value) == IF value = << >> THEN data ELSE SetIf(data, key, value)

\* what a strategy does: returns a dict that is not empty, returns None, or
\* raises
Found(data) == [kind |-> "data", data |-> data]
Nothing == [kind |-> "none", data |-> NoData]
Raised == [kind |-> "raise", data |-> NoData]

\* lines 83-111 for the items of one script, data being the dict shared by
\* all scripts: "return" at the first FlightReservation after which data is
\* not empty, "continue" when reservationFor is not an object (flight.get is
\* an AttributeError, the handler at 113 goes to the next script), "next" at
\* the end of the items
RECURSIVE SchemaOrgItems(_, _)
SchemaOrgItems(items, data) ==
    IF items = << >> THEN [kind |-> "next", data |-> data]
    ELSE LET item == Head(items)
             flight == item.reservationFor
             data1 == SetIf(data, "booking_reference", item.reservationNumber)
             data2 == SetIf(SetIf(SetIf(SetIf(SetIf(data1,
                         "flight_number", flight.flightNumber),
                         "departure_airport", flight.departureAirport),
                         "arrival_airport", flight.arrivalAirport),
                         "departure_time", flight.departureTime),
                         "arrival_time", flight.arrivalTime)
             data3 == IF flight.kind = "flight" THEN data2 ELSE data1
         IN  IF item.type # "FlightReservation" THEN SchemaOrgItems(Tail(items), data)
             ELSE IF flight.kind = "null" THEN [kind |-> "continue", data |-> data1]
             ELSE IF data3 # NoData THEN [kind |-> "return", data |-> data3]
             ELSE SchemaOrgItems(Tail(items), data3)

\* the loop over the scripts, lines 71-115: text that is not JSON is skipped
\* by the handler; a JSON value that is neither an object nor an array makes
\* "for item in items" a TypeError, which the handler does not catch
RECURSIVE SchemaOrgScripts(_, _)
SchemaOrgScripts(scripts, data) ==
    IF scripts = << >> THEN [kind |-> "next", data |-> data]
    ELSE LET script == Head(scripts)
             r == SchemaOrgItems(script.items, data)
         IN  IF script.json = "invalid" THEN SchemaOrgScripts(Tail(scripts), data)
             ELSE IF script.json = "scalar" THEN [kind |-> "raise", data |-> data]
             ELSE IF r.kind = "return" THEN r
             ELSE SchemaOrgScripts(Tail(scripts), r.data)

\* FlightParser.parse_schema_org
parse_schema_org(html) ==
    LET r == SchemaOrgScripts(html.scripts, NoData)
        reservation == html.microdata
        data1 == SetIfContent(SetIfContent(r.data,
                    "booking_reference", reservation.reservationNumber),
                    "flight_number", reservation.flightNumber)
        data2 == IF Len(reservation.airports) >= 2
                 THEN SetIfContent(SetIfContent(data1,
                          "departure_airport", reservation.airports[1]),
                          "arrival_airport", reservation.airports[2])
                 ELSE data1
        data == IF reservation.present THEN data2 ELSE r.data
    IN  IF ~html.readable \/ r.kind = "raise" THEN Raised
        ELSE IF r.kind = "return" THEN Found(r.data)
        ELSE IF data # NoData THEN Found(data) ELSE Nothing

BOOKING_MIN_LEN == 5

\* FlightParser.parse_html_table
parse_html_table(html) ==
    LET table == html.table
        data == SetIf(SetIf(SetIf(SetIf(NoData,
                   "booking_reference",
                   IF table.booking # Absent /\ Len(table.booking) >= BOOKING_MIN_LEN
                   THEN table.booking ELSE Absent),
                   "flight_number", table.flight_number),
                   "departure_airport", table.departure),
                   "arrival_airport", table.arrival)
    IN  IF ~html.readable THEN Raised
        ELSE IF table.keywords /\ data # NoData THEN Found(data) ELSE Nothing

FALSE_POSITIVES == {"THE", "AND", "FOR", "YOU", "NOT", "ARE", "WAS", "BUT"}

\* FlightParser.extract_flight_info_regex; re.search(pattern, None) is a
\* TypeError
extract_flight_info_regex(text) ==
    LET booking == IF text.booking = Absent THEN Absent ELSE Upper(text.booking)
        flight == IF text.flight = Absent THEN Absent
                  ELSE SelectSeq(text.flight, LAMBDA c : c # " ")
        codes == SelectSeq(text.codes, LAMBDA c : c \notin FALSE_POSITIVES)
        airports == IF text.route # << >> THEN text.route
                    ELSE IF Len(codes) >= 2 THEN SubSeq(codes, 1, 2) ELSE << >>
        data1 == SetIf(SetIf(NoData, "booking_reference", booking),
                       "flight_number", flight)
        data == IF airports # << >>
                THEN [data1 EXCEPT !.departure_airport = <<airports[1]>>,
                                   !.arrival_airport = <<airports[2]>>]
                ELSE data1
    IN  IF text.none THEN Raised
        ELSE IF data # NoData THEN Found(data) ELSE Nothing

\* soup.get_text() + " " + text_content: a pattern finds its first match in
\* the text of the body, else in text_content
CombinedText(html_text, text_content) ==
    [none |-> FALSE,
     booking |-> IF html_text.booking # Absent THEN html_text.booking
                 ELSE text_content.booking,
     flight |-> IF html_text.flight # Absent THEN html_text.flight ELSE text_content.flight,
     route |-> IF html_text.route # << >> THEN html_text.route ELSE text_content.route,
     codes |-> html_text.codes \o text_content.codes]

\* strategy 3, lines 48-59: the call of extract_flight_info_regex is not
\* reached when BeautifulSoup or the concatenation with None raises
RegexReached(email_data) ==
    ~email_data.html_content.markup
       \/ (email_data.html_content.readable /\ ~email_data.text_content.none)

RegexStrategy(email_data) ==
    IF ~email_data.html_content.markup
    THEN extract_flight_info_regex(email_data.text_content)
    ELSE IF ~RegexReached(email_data) THEN Raised
    ELSE extract_flight_info_regex(CombinedText(email_data.html_content.text,
                                                email_data.text_content))

\* the strategies that parse has entered when the k-th was the last one, each
\* named by the method it relies on; the first two are behind "if html_content"
StrategiesUpTo(email_data, k) ==
    (IF email_data.html_content.markup
     THEN SubSeq(<<"parse_schema_org", "parse_html_table">>, 1, IF k >= 2 THEN 2 ELSE k)
     ELSE << >>)
    \o (IF k = 3 THEN <<"extract_flight_info_regex">> ELSE << >>)

\* Variant: the keys that the winning strategy did not fill are taken from
\* the later strategies
parse_fills_from_later(email_data) ==
    LET html_content == email_data.html_content
        s1 == IF html_content.markup THEN parse_schema_org(html_content) ELSE Nothing
        s2 == IF html_content.markup THEN parse_html_table(html_content) ELSE Nothing
        s3 == RegexStrategy(email_data)
        fill(a, b) == [key \in DOMAIN NoData |-> IF a[key] # Absent THEN a[key] ELSE b[key]]
        data == fill(s1.data, fill(s2.data, s3.data))
    IN  IF data # NoData
        THEN [kind |-> "data", data |-> data, strategies |-> StrategiesUpTo(email_data, 3)]
        ELSE [kind |-> "none", data |-> NoData,
              strategies |-> StrategiesUpTo(email_data, 3)]

\* Variant: strategy 3 has no handler, what it raises leaves parse
parse_regex_unguarded(email_data) ==
    LET html_content == email_data.html_content
        s1 == IF html_content.markup THEN parse_schema_org(html_content) ELSE Nothing
        s2 == IF html_content.markup THEN parse_html_table(html_content) ELSE Nothing
        s3 == RegexStrategy(email_data)
    IN  IF s1.kind = "data"
        THEN [kind |-> "data", data |-> s1.data,
              strategies |-> StrategiesUpTo(email_data, 1)]
        ELSE IF s2.kind = "data"
        THEN [kind |-> "data", data |-> s2.data,
              strategies |-> StrategiesUpTo(email_data, 2)]
        ELSE [kind |-> s3.kind, data |-> s3.data,
              strategies |-> StrategiesUpTo(email_data, 3)]

\* FlightParser.parse: what it returns (a dict, or None) and the strategies
\* it has called; "raise" at a strategy is the "except Exception" of that
\* strategy, after which the next one is tried
parse(email_data) ==
    LET html_content == email_data.html_content
        s1 == IF html_content.markup THEN parse_schema_org(html_content) ELSE Nothing
        s2 == IF html_content.markup THEN parse_html_table(html_content) ELSE Nothing
        s3 == RegexStrategy(email_data)
    IN  IF s1.kind = "data"
        THEN [kind |-> "data", data |-> s1.data,
              strategies |-> StrategiesUpTo(email_data, 1)]
        ELSE IF s2.kind = "data"
        THEN [kind |-> "data", data |-> s2.data,
              strategies |-> StrategiesUpTo(email_data, 2)]
        ELSE IF s3.kind = "data"
        THEN [kind |-> "data", data |-> s3.data,
              strategies |-> StrategiesUpTo(email_data, 3)]
        ELSE [kind |-> "none", data |-> NoData,
              strategies |-> StrategiesUpTo(email_data, 3)]

\* the inputs; the values of the three sources differ
SchemaFlight ==
    [kind |-> "flight", flightNumber |-> <<"UA456">>, departureAirport |-> <<"SFO">>,
     arrivalAirport |-> <<"JFK">>, departureTime |-> <<"2024-10-15T10:00:00">>,
     arrivalTime |-> <<"2024-10-15T18:00:00">>]
ParserItems ==
    {Item("Order", Absent, <<"ORD001">>, NoFlight),
     Item("FlightReservation", Confirmed, <<"ABC123">>, SchemaFlight),
     Item("FlightReservation", Confirmed, <<"NUL123">>, [NoFlight EXCEPT !.kind = "null"]),
     Item("FlightReservation", Confirmed, Absent, NoFlight)}
ParserScripts ==
    {InvalidJson, ScalarJson} \cup {ItemsJson(items) : items \in ItemLists(ParserItems)}
Microdatas ==
    {NoMicrodata,
     [present |-> TRUE, reservationStatus |-> Absent,
      reservationNumber |-> <<"MIC123">>, flightNumber |-> Absent,
      airports |-> <<>>],
     \* <meta itemprop="reservationNumber" content="">
     [present |-> TRUE, reservationStatus |-> Absent,
      reservationNumber |-> << >>, flightNumber |-> Absent,
      airports |-> <<>>]}
Tables ==
    {NoTable,
     [keywords |-> TRUE, booking |-> <<"T", "B", "L", "4", "5">>,
      flight_number |-> <<"DL789">>, departure |-> <<"LAX">>, arrival |-> <<"SEA">>],
     [keywords |-> TRUE, booking |-> <<"T", "4">>, flight_number |-> Absent,
      departure |-> Absent, arrival |-> Absent],
     \* a "Flight Number" row whose second cell is empty
     [keywords |-> TRUE, booking |-> Absent, flight_number |-> << >>,
      departure |-> Absent, arrival |-> Absent]}
BodyTexts ==
    {NoText,
     [none |-> FALSE, booking |-> Absent, flight |-> <<"AA", " ", "100">>,
      route |-> << >>, codes |-> <<"THE", "ORD", "BOS">>]}
TextContents ==
    {NoneText, NoText,
     [none |-> FALSE, booking |-> <<"a", "b", "c", "d", "9">>, flight |-> Absent,
      route |-> <<"DEN", "MIA">>, codes |-> <<"DEN", "MIA">>]}
ParserBodies ==
    {EmptyHtml, Unreadable} \cup
    {Document(scripts, microdata, table, text) :
        scripts \in UNION {[1..n -> ParserScripts] : n \in 0..MaxScripts},
        microdata \in Microdatas, table \in Tables, text \in BodyTexts}
ParserEmails == [html_content : ParserBodies, text_content : TextContents]

InitParser ==
    /\ mailbox = [m \in Msgs |-> NotFlight]
    /\ search_result = << >>
    /\ Idle
    /\ \E email_data \in ParserEmails :
          pure = [fn |-> "none", input |-> email_data, output |-> << >>]

\* parser.parse(email_data)
CallParse ==
    /\ pure.fn = "none"
    /\ pure' = [fn |-> "parse", input |-> pure.input, output |-> parse(pure.input)]
    /\ UNCHANGED <<remote, store, orchestrator, history, utils, scope, twin>>

NextParser == CallParse

SpecParser == InitParser /\ [][NextParser]_vars

\* ------------------------------------------------------------------ typing
TypeOK ==
    /\ pc \in {"idle", "p1_begin", "p1_loop", "p1_saved",
               "p2_select", "p2_loop", "p2_forwarded"}
    /\ Len(ledger) <= MaxEvents
    /\ \A i \in DOMAIN ledger : ledger[i].status \in Statuses /\ ledger[i].phase \in Phases
    /\ idx \in 1..(MaxList + 1)

\* ------------------------------------------------------------- properties
\* a SUCCESS row of the (message, phase) pair is in the ledger
HasSuccess(m, phase) ==
    \E i \in DOMAIN ledger : /\ ledger[i].message_id = m
                             /\ ledger[i].phase = phase
                             /\ ledger[i].status = SUCCESS

\* the rows of a (message, phase) pair, oldest first
EventsOf(led, m, phase) ==
    SelectSeq(led, LAMBDA ps : ps.message_id = m /\ ps.phase = phase)

\* the step appends exactly one row, for message m and the phase
AppendsOneFor(m, phase) ==
    /\ Len(ledger') = Len(ledger) + 1
    /\ SubSeq(ledger', 1, Len(ledger)) = ledger
    /\ ledger'[Len(ledger')].message_id = m
    /\ ledger'[Len(ledger')].phase = phase

\* C1: once a SUCCESS event exists for (m, P), is_email_processed(m, P) is
\* true and no later step does work for m in phase P: no new event for the
\* pair; for the label phase no fetch by the sweep and no change of the Email
\* Record; for the forward phase m is in no selection and is not sent again.
C1_SuccessIsNeverReprocessed ==
    [][\A m \in Msgs, phase \in Phases :
          HasSuccess(m, phase) =>
              /\ is_email_processed(ledger, m, phase)
              /\ EventsOf(ledger', m, phase) = EventsOf(ledger, m, phase)
              /\ phase = PHASE1_LABEL =>
                    /\ pc \in {"p1_loop", "p1_saved"} => <<"messages.get", m>> \notin calls'
                    /\ emails'[m] = emails[m]
              /\ phase = PHASE2_FORWARD =>
                    /\ \A sel \in get_unprocessed_emails(emails, ledger, phase) :
                          \A i \in DOMAIN sel : sel[i].message_id # m
                    /\ pc = "p2_select" => m \notin Range(message_ids')
                    /\ <<"messages.send", m>> \notin calls'
                    /\ (m \in sent') = (m \in sent)]_vars

\* a later sweep has skipped the first message of the search result, which
\* holds a SUCCESS event for the label phase, and one message has been kept
\* out of a phase 2 selection by its SUCCESS event for the forward phase
C1_Witness ==
    /\ pc = "p1_loop"
    /\ idx = 2
    /\ HasSuccess(message_list[1], PHASE1_LABEL)
    /\ flight_messages = << >>
    /\ cur_statuses = {}
    /\ \E m \in Msgs : HasSuccess(m, PHASE2_FORWARD)

\* C2 as stated: after a phase 1 run that completed without recording a
\* FAILED event, the next phase 1 sweep (same search result) fetches no
\* message, appends no event and changes no Email Record.
NoWorkInSweep ==
    /\ \A m \in Msgs : <<"messages.get", m>> \notin calls'
    /\ ledger' = ledger
    /\ emails' = emails

C2_Original ==
    [][(/\ pc \in {"p1_loop", "p1_saved"}
        /\ prev_p1.done
        /\ FAILED \notin prev_p1.statuses)
       => NoWorkInSweep]_vars

\* C2 amended: the same, after a run that recorded neither a FAILED nor a
\* SKIPPED event (every listed message then holds a SUCCESS event).
C2_RerunAfterAllSuccess ==
    [][(/\ pc \in {"p1_loop", "p1_saved"}
        /\ prev_p1.done
        /\ prev_p1.statuses = {})
       => NoWorkInSweep]_vars

\* the sweep that follows such a run has gone through the whole, non-empty
\* search result
C2_Witness ==
    /\ pc = "p1_loop"
    /\ prev_p1.done
    /\ prev_p1.statuses = {}
    /\ Len(message_list) >= 1
    /\ idx = Len(message_list) + 1

\* C3: a message whose label events are all FAILED is not skipped:
\* is_email_processed is false for it, and the sweep that reaches it fetches
\* it again and records one new event for it (for a flight confirmation,
\* after the Email Record is saved).
OnlyFailed(m, phase) ==
    /\ EventsOf(ledger, m, phase) # << >>
    /\ \A i \in DOMAIN ledger :
          ledger[i].message_id = m /\ ledger[i].phase = phase => ledger[i].status = FAILED

C3_FailedIsRetried ==
    [][(/\ pc \in {"p1_loop", "p1_saved"}
        /\ idx <= Len(message_list)
        /\ OnlyFailed(message_list[idx], PHASE1_LABEL)
        /\ pc' # "idle")
       => /\ ~ is_email_processed(ledger, message_list[idx], PHASE1_LABEL)
          /\ IF pc = "p1_loop"
             THEN /\ <<"messages.get", message_list[idx]>> \in calls'
                  /\ \/ pc' = "p1_saved" /\ idx' = idx
                     \/ AppendsOneFor(message_list[idx], PHASE1_LABEL) /\ idx' = idx + 1
             ELSE AppendsOneFor(message_list[idx], PHASE1_LABEL) /\ idx' = idx + 1]_vars

\* a message listed once has a FAILED label event followed by a later label
\* event: it was attempted again
C3_Witness ==
    \E m \in Msgs :
        /\ Len(EventsOf(ledger, m, PHASE1_LABEL)) >= 2
        /\ EventsOf(ledger, m, PHASE1_LABEL)[1].status = FAILED
        /\ Cardinality({i \in DOMAIN search_result : search_result[i] = m}) = 1

\* C4: the done check is existence-based: is_email_processed(m, P) is true
\* exactly when some event of message m and phase P has status SUCCESS,
\* whatever other events precede or follow it.
C4_DoneIsExistenceBased ==
    \A m \in Msgs, phase \in Phases :
        is_email_processed(ledger, m, phase) = HasSuccess(m, phase)

\* a SUCCESS event is followed by a FAILED event of the same pair, and the
\* pair still counts as processed
C4_Witness ==
    \E i, j \in DOMAIN ledger :
        /\ i < j
        /\ ledger[i].message_id = ledger[j].message_id
        /\ ledger[i].phase = ledger[j].phase
        /\ ledger[i].status = SUCCESS
        /\ ledger[j].status = FAILED
        /\ j = Len(ledger)
        /\ is_email_processed(ledger, ledger[i].message_id, ledger[i].phase)

\* C5: the ledger is append-only: a step leaves it alone or adds exactly one
\* event at the end and keeps every earlier event as it was.
C5_LedgerAppendOnly ==
    [][\/ ledger' = ledger
       \/ /\ Len(ledger') = Len(ledger) + 1
          /\ SubSeq(ledger', 1, Len(ledger)) = ledger]_vars

\* the ledger holds two events of one (message, phase) pair
C5_Witness ==
    \E i, j \in DOMAIN ledger :
        /\ i < j
        /\ ledger[i].message_id = ledger[j].message_id
        /\ ledger[i].phase = ledger[j].phase

C8_UnprocessedIsExact ==
    \A phase \in Phases :
        \A sel \in get_unprocessed_emails(emails, ledger, phase) :
            /\ {sel[i].message_id : i \in DOMAIN sel}
                   = {m \in Msgs : emails[m].present /\ ~ HasSuccess(m, phase)}
            /\ \A i, j \in DOMAIN sel : sel[i].message_id = sel[j].message_id => i = j
            /\ \A i \in DOMAIN sel : sel[i].pnr = emails[sel[i].message_id].pnr

\* one record has only a FAILED event for the forward phase and a SUCCESS
\* event for the label phase and is selected; the other holds a SUCCESS
\* event for the forward phase and is not
C8_Witness ==
    \E m, n \in Msgs :
        /\ emails[m].present /\ emails[n].present
        /\ HasSuccess(m, PHASE1_LABEL)
        /\ OnlyFailed(m, PHASE2_FORWARD)
        /\ HasSuccess(n, PHASE2_FORWARD)
        /\ UnprocessedIds(emails, ledger, PHASE2_FORWARD) = {m}

\* C9 as stated: every message phase 2 sends holds a SUCCESS event for the
\* label phase at that moment.
C9_ForwardsOnlyLabeled ==
    \A m \in Msgs : <<"messages.send", m>> \in calls => HasSuccess(m, PHASE1_LABEL)

\* C10 as stated: with deduplication on in every run, no two messages that
\* both hold a SUCCESS event for the forward phase have matching references.
C10_NoDuplicateForwarded ==
    \A m, n \in Msgs :
        (/\ m # n
         /\ HasSuccess(m, PHASE2_FORWARD)
         /\ HasSuccess(n, PHASE2_FORWARD))
        => ~ are_pnrs_duplicate(emails[m].pnr, emails[n].pnr, FUZZY_THRESHOLD)

\* a phase 1 run completes normally with this step (the sweep is over and
\* the label step is done, or the search listed nothing)
Phase1Completes ==
    /\ pc \in {"p1_begin", "p1_loop"}
    /\ pc' \notin {"p1_loop", "p1_saved"}
    /\ prev_p1'.done

\* C11 as stated: when a phase 1 run without dry-run completes normally,
\* every message that holds a SUCCESS event for the label phase has had the
\* label applied, whatever earlier runs did (interrupted, dry-run).
C11_ResumableLabeling ==
    [][(Phase1Completes /\ ~ args.dry_run)
       => \A m \in Msgs : HasSuccess(m, PHASE1_LABEL) => m \in labeled']_vars

\* the remote calls that only read: labels.list, messages.list, messages.get
ReadCalls == {"labels.list", "messages.list", "messages.get"}

\* C12 as stated: a step of a run with dry-run enabled makes only read
\* calls: no label is created, no message is modified, no message is sent.
C12_DryRunOnlyReads ==
    [][args.dry_run => \A c \in calls' : c[1] \in ReadCalls]_vars

\* C13: a call of a wrapped function when dry-run is enabled does not invoke
\* the function and returns the decorator's return_value; when dry-run is
\* disabled it invokes the function exactly once with the same arguments and
\* returns its result; the flag that counts is the one at the time of the
\* call.
C13_DryRunSafe ==
    [][Len(wrapper_log') = Len(wrapper_log) + 1
       => LET call == wrapper_log'[Len(wrapper_log')]
          IN  /\ SubSeq(wrapper_log', 1, Len(wrapper_log)) = wrapper_log
              /\ IF dry_run_enabled
                 THEN /\ func_calls' = func_calls
                      /\ call.value = ReturnValueOf(call.func)
                 ELSE /\ func_calls' = Append(func_calls, [func |-> call.func, args |-> call.args])
                      /\ call.value = Func(call.func, call.args)]_vars

\* add(2, 3) was called three times: enabled, disabled, enabled again; the
\* function ran once and the results were None, 5, None
C13_Witness ==
    /\ Len(wrapper_log) = 3
    /\ \A i \in 1..3 : wrapper_log[i].func = "add" /\ wrapper_log[i].args = <<2, 3>>
    /\ wrapper_log[1].value = None
    /\ wrapper_log[2].value = <<"int", 5>>
    /\ wrapper_log[3].value = None
    /\ func_calls = <<[func |-> "add", args |-> <<2, 3>>]>>
    /\ dry_run_enabled

RetryEnded == retry.pc \in {"returned", "raised"}

\* C15: a call with max_retries >= 1 ends after at most max_retries
\* invocations of request_func: when it has returned, the last invocation is
\* the first that did not raise; when every one of the max_retries
\* invocations raised a transient HttpError, the call has raised the error of
\* the last one, after max_retries - 1 waits; and a call in progress ends.
C15_RetryTerminates ==
    /\ [](retry.max_retries >= 1 =>
            /\ Len(retry.attempts) <= retry.max_retries
            /\ retry.pc = "returned" =>
                  /\ retry.attempts # << >>
                  /\ retry.attempts[Len(retry.attempts)] = Returns
                  /\ \A i \in 1..(Len(retry.attempts) - 1) : retry.attempts[i] # Returns
            /\ (/\ Len(retry.attempts) = retry.max_retries
                /\ \A i \in DOMAIN retry.attempts : IsTransient(retry.attempts[i]))
               => /\ retry.pc = "raised"
                  /\ retry.error = retry.attempts[retry.max_retries]
                  /\ Len(retry.waits) = retry.max_retries - 1)
    /\ ((retry.pc = "running" /\ retry.max_retries >= 1) ~> RetryEnded)

\* a call with the default max_retries = 5 has raised the 503 of its fifth
\* invocation after four waits of 1, 2, 4 and 8 seconds (plus jitter)
C15_Witness ==
    /\ retry.pc = "raised"
    /\ retry.max_retries = 5
    /\ Len(retry.attempts) = 5
    /\ \A i \in 1..5 : IsTransient(retry.attempts[i])
    /\ retry.error = HttpError(503)
    /\ retry.waits = <<1, 2, 4, 8>>

\* C16: a permanent remote error is never retried: when an invocation raises
\* an HttpError whose status is not 403, 429, 500 or 503, the call raises
\* that error at once, without a wait, however many transient failures came
\* before, and request_func is not invoked again.
C16_PermanentErrorNotRetried ==
    [][/\ (/\ Len(retry'.attempts) = Len(retry.attempts) + 1
           /\ retry'.attempts[Len(retry'.attempts)] \in
                  {HttpError(status) : status \in HttpStatuses \ {403, 429, 500, 503}})
          => /\ retry'.pc = "raised"
             /\ retry'.error = retry'.attempts[Len(retry'.attempts)]
             /\ retry'.waits = retry.waits
       /\ retry.pc = "raised" => retry'.attempts = retry.attempts]_vars

\* two transient failures were waited out and the third invocation raised
\* 404: the call raised it with attempts to spare
C16_Witness ==
    /\ retry.pc = "raised"
    /\ retry.max_retries = 5
    /\ retry.attempts = <<HttpError(429), HttpError(503), HttpError(404)>>
    /\ retry.error = HttpError(404)
    /\ retry.waits = <<1, 2>>

\* C17 as stated: a ConnectionError raised by request_func is retried with
\* backoff: unless the attempt was the last one allowed, the call waits and
\* goes on.
C17_ConnectionErrorRetried ==
    [][(/\ Len(retry'.attempts) = Len(retry.attempts) + 1
        /\ retry'.attempts[Len(retry'.attempts)] = ConnectionError
        /\ Len(retry'.attempts) < retry.max_retries)
       => /\ retry'.pc = "running"
          /\ Len(retry'.waits) = Len(retry.waits) + 1]_vars

\* s is a prefix of t
IsPrefix(s, t) == Len(s) <= Len(t) /\ SubSeq(t, 1, Len(s)) = s

\* C18: every StateManager operation is atomic and scoped to its own
\* connection: the database changes only when the operation commits on
\* normal exit, and then by exactly its statement, keeping every other
\* record, event and checkpoint; an exception in the body or in the commit
\* is followed by rollback and re-raise with the database as it was; a crash
\* inside the scope leaves the database as it was; the connection is closed
\* when the scope is left and is open only inside it.
C18_AtomicScopedOperations ==
    [][/\ Database(emails', ledger', checkpoints') # Committed
          => /\ conn.stage = "body_done"
             /\ conn'.outcome = "returned"
             /\ Database(emails', ledger', checkpoints') = Execute(conn.op, Committed)
             /\ \A m \in Msgs : emails[m].present => emails'[m].present
             /\ \A m \in Msgs : m # conn.op.message_id => emails'[m] = emails[m]
             /\ IsPrefix(ledger, ledger')
             /\ IsPrefix(checkpoints, checkpoints')
       /\ (conn.stage = "body_done" /\ conn'.outcome = "returned")
          => Database(emails', ledger', checkpoints') = Execute(conn.op, Committed)
       /\ (conn.stage = "except" /\ conn'.stage # "none")
          => /\ conn'.stage = "finally"
             /\ conn'.outcome = "raised"
             /\ Database(emails', ledger', checkpoints') = Committed
       /\ conn'.outcome \in {"raised", "crashed"}
          => Database(emails', ledger', checkpoints') = Committed
       /\ conn.stage = "finally" => conn'.stage = "none"
       /\ conn'.open = (conn'.stage # "none")]_vars

\* an event and a checkpoint are committed; a save_email that raised inside
\* the scope has been rolled back and its connection closed: the record is
\* not in the table
C18_Witness ==
    /\ conn.stage = "none"
    /\ ~ conn.open
    /\ conn.outcome = "raised"
    /\ conn.op.name = "save_email"
    /\ ~ emails[conn.op.message_id].present
    /\ Len(ledger) = 1
    /\ Len(checkpoints) = 1

\* C19: Email Records are upserted by message id and never deleted: before
\* any save get_email(m) is None; a committed save_email(m, ...) makes
\* get_email(m) return the values of that call, an absent value for a field
\* the call did not supply included, and changes the record of no other id;
\* no other step changes what get_email returns; an id that is stored stays
\* stored.
C19_UpsertByMessageId ==
    /\ [](conn.count = 0 => \A m \in Msgs : get_email(emails, m) = None)
    /\ [][\A m \in Msgs :
             /\ emails[m].present => emails'[m].present
             /\ IF /\ conn.stage = "body_done"
                   /\ conn'.outcome = "returned"
                   /\ conn.op.name = "save_email"
                   /\ conn.op.message_id = m
                THEN get_email(emails', m) = <<"row", conn.op.pnr>>
                ELSE get_email(emails', m) = get_email(emails, m)]_vars

\* the second committed operation saved message 1 without a reference; its
\* record holds no reference; message 2 was never saved
C19_Witness ==
    /\ conn.count = 2
    /\ conn.outcome = "returned"
    /\ conn.op = Op("save_email", 1, "none", "none", None)
    /\ get_email(emails, 1) = <<"row", None>>
    /\ get_email(emails, 2) = None
    /\ ledger = << >>
    /\ checkpoints = << >>

\* the step classifies the message the sweep is at as not a flight
\* confirmation: it was fetched, nothing raised before the classification
\* was done, and the process goes on
ClassifiedNotFlight ==
    /\ pc = "p1_loop"
    /\ idx <= Len(message_list)
    /\ ~ mailbox[message_list[idx]].flight
    /\ <<"messages.get", message_list[idx]>> \in calls'
    /\ err' # ErrHttp
    /\ pc' # "idle"

C21_ExactMatchAndAbsent ==
    pure.fn = "are_pnrs_duplicate" =>
        LET pnr1 == pure.input.pnr1
            pnr2 == pure.input.pnr2
        IN  /\ (pnr1 # None /\ pnr1 # << >> /\ pnr2 # None /\ pnr2 # << >>
                /\ Upper(pnr1) = Upper(pnr2)) => pure.output = TRUE
            /\ (pnr1 \in {None, << >>} \/ pnr2 \in {None, << >>}) => pure.output = FALSE

\* two references that differ in case only have been compared under a
\* threshold no ratio reaches, and the answer was true
C21_Witness ==
    /\ pure.fn = "are_pnrs_duplicate"
    /\ pure.input.pnr1 = PnrAb
    /\ pure.input.pnr2 = PnraB
    /\ pure.input.threshold = 101
    /\ pure.output = TRUE

\* a reference has been compared with None under threshold 0, and the answer
\* was false
C21_WitnessAbsent ==
    /\ pure.fn = "are_pnrs_duplicate"
    /\ pure.input.pnr1 = PnrAb
    /\ pure.input.pnr2 = None
    /\ pure.input.threshold = 0
    /\ pure.output = FALSE

\* C22: unique-filtering is idempotent: get_unique_emails applied to what
\* get_unique_emails returned returns the same records in the same order.
C22_UniqueFilteringIdempotent ==
    [][(pure.fn = "get_unique_emails" /\ pure'.fn = "get_unique_emails")
          => /\ pure'.input.emails = pure.output
             /\ pure'.output = pure.output]_vars

\* the second call has been made on a list the first call shortened: the
\* record in the middle, a repeat of the first reference, is gone
C22_Witness ==
    /\ pure.fn = "get_unique_emails"
    /\ pure.input.threshold = FUZZY_THRESHOLD
    /\ pure.input.emails = <<[message_id |-> 1, pnr |-> PnrAb],
                             [message_id |-> 3, pnr |-> PnrAc]>>
    /\ pure.output = pure.input.emails

\* the record of a list that has the message id
RecordOf(list, message_id) == CHOOSE email \in Range(list) : email.message_id = message_id

\* the position in a list of the record that has the message id
PositionOf(list, message_id) == CHOOSE i \in DOMAIN list : list[i].message_id = message_id

\* the message ids of a list, in list order
IdsOf(list) == [i \in DOMAIN list |-> list[i].message_id]

\* C23: get_unique_emails returns a subsequence of its input in input order;
\* every record whose reference is None or empty is kept; a record with a
\* reference is kept exactly when its reference matches none of the
\* references of the records kept before it; and a kept record with a
\* reference is the first record of the input with that reference
\* (upper-cased).
C23_UniqueIsGreedySubsequence ==
    pure.fn = "get_unique_emails" =>
        LET list == pure.input.emails
            unique == pure.output
            threshold == pure.input.threshold
            kept == {unique[k].message_id : k \in DOMAIN unique}
            has_pnr(i) == list[i].pnr # None /\ list[i].pnr # << >>
        IN  /\ \A k \in DOMAIN unique : unique[k] \in Range(list)
            /\ \A k, l \in DOMAIN unique :
                  k < l => PositionOf(list, unique[k].message_id)
                              < PositionOf(list, unique[l].message_id)
            /\ \A i \in DOMAIN list :
                  /\ ~has_pnr(i) => list[i].message_id \in kept
                  /\ has_pnr(i) =>
                        (list[i].message_id \in kept
                           <=> \A j \in 1..(i - 1) :
                                  (has_pnr(j) /\ list[j].message_id \in kept)
                                     => ~are_pnrs_duplicate(list[i].pnr, list[j].pnr,
                                                            threshold))
                  /\ (has_pnr(i) /\ list[i].message_id \in kept) =>
                        \A j \in 1..(i - 1) :
                           has_pnr(j) => Upper(list[j].pnr) # Upper(list[i].pnr)

\* three records: a reference, no reference, the first reference in another
\* case; the first two are returned
C23_Witness ==
    /\ pure.fn = "get_unique_emails"
    /\ pure.input.threshold = FUZZY_THRESHOLD
    /\ pure.input.emails = <<[message_id |-> 1, pnr |-> PnrAb],
                             [message_id |-> 2, pnr |-> None],
                             [message_id |-> 3, pnr |-> PnraB]>>
    /\ IdsOf(pure.output) = <<1, 2>>

\* the groups of a find_duplicates result that hold the message id
GroupsOf(groups, message_id) == {g \in groups : message_id \in Range(g.ids)}

\* what C24 says of every result, but for the references that stay out
GroupsWellFormed(list, groups) ==
    /\ \A g \in groups :
          /\ Len(g.ids) >= 2
          /\ \A k, l \in DOMAIN g.ids :
                k < l => PositionOf(list, g.ids[k]) < PositionOf(list, g.ids[l])
          /\ g.pnr = Upper(RecordOf(list, g.ids[1]).pnr)
    /\ \A g, h \in groups : g.pnr = h.pnr => g = h
    /\ \A i \in DOMAIN list :
          /\ Cardinality(GroupsOf(groups, list[i].message_id)) <= 1
          /\ list[i].pnr \in {None, << >>} => GroupsOf(groups, list[i].message_id) = {}

C24_WitnessFuzzy ==
    /\ pure.fn = "find_duplicates"
    /\ pure.input.threshold = FUZZY_THRESHOLD
    /\ IdsOf(pure.input.emails) = <<1, 2>>
    /\ pure.input.emails[1].pnr = Pnr9
    /\ pure.input.emails[2].pnr = Pnr10
    /\ pure.output = {[pnr |-> Pnr9, ids |-> <<1, 2>>]}

\* 50 when the condition holds, else 0, and so on
Weight(fires, weight) == IF fires THEN weight ELSE 0

\* C25: the score that classify returns is the sum of the weights of the
\* signals that fire (structured markup 50, sender domain 20, subject pattern
\* 20, content markers 10), hence a multiple of 10 from 0 to 100; the boolean
\* is true iff the score is at least 50; and no signal lowers the score: the
\* same email with the markup, the sender, the subject or the text taken
\* away never scores higher.
C25_ScoreIsSumOfWeights ==
    pure.fn = "classify" =>
        LET email_data == pure.input
            score == pure.output.score
            blank == {[email_data EXCEPT !.html_content = EmptyHtml],
                      [email_data EXCEPT !.from_email = [lower |-> {}]],
                      [email_data EXCEPT !.subject = [confirmation |-> {}, exclusion |-> {}]],
                      [email_data EXCEPT !.combined_content = {}]}
        IN  /\ score = Weight(email_data.html_content.markup
                                 /\ has_flight_reservation_schema(email_data.html_content), 50)
                       + Weight(is_airline_domain(email_data.from_email), 20)
                       + Weight(is_confirmation_subject(email_data.subject), 20)
                       + Weight(has_flight_markers(email_data.combined_content), 10)
            /\ score \in {10 * k : k \in 0..10}
            /\ pure.output.is_flight = (score >= 50)
            /\ \A less \in blank : classify(less).score <= score

\* an email from an airline with a confirmation subject and three markers in
\* its text, without markup: 20 + 20 + 10, a flight
C25_Witness ==
    /\ pure.fn = "classify"
    /\ ~pure.input.html_content.markup
    /\ is_airline_domain(pure.input.from_email)
    /\ is_confirmation_subject(pure.input.subject)
    /\ has_flight_markers(pure.input.combined_content)
    /\ pure.output = [is_flight |-> TRUE, score |-> 50]

\* a JSON-LD FlightReservation of the body has a status that contains
\* Confirmed
CarriesConfirmedMarkup(html) ==
    /\ html.markup
    /\ \E k \in DOMAIN html.scripts :
          /\ html.scripts[k].json = "items"
          /\ \E i \in DOMAIN html.scripts[k].items :
                LET item == html.scripts[k].items[i]
                IN  /\ item.type = "FlightReservation"
                    /\ item.reservationStatus \notin {Absent, None}
                    /\ "Confirmed" \in Range(item.reservationStatus)

\* C26: for every email whose HTML body carries FlightReservation markup
\* with a Confirmed status, classify returns is_flight = true and a score of
\* at least 50, whatever the subject, the sender and the text are.
C26_MarkupAloneDecides ==
    (pure.fn = "classify" /\ CarriesConfirmedMarkup(pure.input.html_content))
        => pure.output.is_flight /\ pure.output.score >= 50

\* the body carries a FlightReservation whose status is null and, after it, a
\* Confirmed one; nothing else fires; the email is not a flight, score 0
C26_Divergence ==
    /\ pure.fn = "classify"
    /\ CarriesConfirmedMarkup(pure.input.html_content)
    /\ pure.input.html_content.scripts[1].items[1].reservationStatus = None
    /\ pure.output = [is_flight |-> FALSE, score |-> 0]

\* what each strategy of the cascade does on the email, in cascade order;
\* the first two are not called when html_content is empty
StrategyOutcomes(email_data) ==
    <<IF email_data.html_content.markup THEN parse_schema_org(email_data.html_content)
      ELSE Nothing,
      IF email_data.html_content.markup THEN parse_html_table(email_data.html_content)
      ELSE Nothing,
      RegexStrategy(email_data)>>

StrategyNames == <<"parse_schema_org", "parse_html_table", "extract_flight_info_regex">>

\* the body has valid structured markup: every JSON-LD script holds an
\* object or an array of objects, and a FlightReservation item or the
\* Microdata div carries a field
ValidMarkup(html) ==
    /\ html.markup /\ html.readable
    /\ \A k \in DOMAIN html.scripts : html.scripts[k].json = "items"
    /\ \/ \E k \in DOMAIN html.scripts : \E i \in DOMAIN html.scripts[k].items :
             LET item == html.scripts[k].items[i]
             IN  /\ item.type = "FlightReservation"
                 /\ item.reservationNumber # Absent \/ item.reservationFor.kind = "flight"
       \/ /\ html.microdata.present
          /\ html.microdata.reservationNumber \notin {Absent, << >>}

\* the values that the structured markup of the body holds
MarkupValues(html) ==
    UNION {{item.reservationNumber} \cup
           {item.reservationFor[key] : key \in DOMAIN NoFlight \ {"kind"}} :
              item \in UNION {Range(html.scripts[k].items) : k \in DOMAIN html.scripts}}
    \cup {html.microdata.reservationNumber, html.microdata.flightNumber}
    \cup Range(html.microdata.airports)

\* the values that the table, the text of the body and text_content yield
OtherValues(email_data) ==
    LET others == {parse_html_table(email_data.html_content).data,
                   extract_flight_info_regex(email_data.html_content.text).data,
                   extract_flight_info_regex(email_data.text_content).data}
    IN  {data[key] : data \in others, key \in DOMAIN NoData} \ {Absent}

C27_WitnessMalformedMarkup ==
    /\ pure.fn = "parse"
    /\ Len(pure.input.html_content.scripts) = 2
    /\ pure.input.html_content.scripts[1] = ScalarJson
    /\ pure.input.html_content.scripts[2].items
          = <<Item("FlightReservation", Confirmed, <<"ABC123">>, SchemaFlight)>>
    /\ pure.output.strategies = <<"parse_schema_org", "parse_html_table">>
    /\ pure.output.data.booking_reference = <<"T", "B", "L", "4", "5">>

\* C28: an exception raised inside a strategy does not leave parse: the
\* strategy counts as having found nothing and the next one is tried; when no
\* strategy yields a field, parse returns None - it does not raise and does
\* not return an empty record.
C28_StrategyExceptionsSwallowed ==
    pure.fn = "parse" =>
        LET email_data == pure.input
            outcome == StrategyOutcomes(email_data)
            yields(k) == outcome[k].kind = "data"
        IN  /\ pure.output.kind \in {"data", "none"}
            /\ pure.output.kind = "data" => pure.output.data # NoData
            /\ \A k \in 1..3 :
                  (outcome[k].kind = "raise" /\ \A j \in 1..(k - 1) : ~yields(j))
                     => /\ k < 3 => StrategyNames[k + 1] \in Range(pure.output.strategies)
                        /\ \A l \in (k + 1)..3 :
                              (yields(l) /\ \A j \in (k + 1)..(l - 1) : ~yields(j))
                                 => pure.output = [kind |-> "data", data |-> outcome[l].data,
                                                   strategies |-> pure.output.strategies]
                        /\ (\A l \in (k + 1)..3 : ~yields(l)) => pure.output.kind = "none"
            /\ (\A k \in 1..3 : ~yields(k))
                  => pure.output.kind = "none" /\ pure.output.data = NoData

\* BeautifulSoup raises on the body and text_content is None: each of the
\* three strategies has raised, and parse has returned None
C28_Witness ==
    /\ pure.fn = "parse"
    /\ pure.input.html_content = Unreadable
    /\ pure.input.text_content = NoneText
    /\ \A k \in 1..3 : StrategyOutcomes(pure.input)[k].kind = "raise"
    /\ pure.output = [kind |-> "none", data |-> NoData, strategies |-> StrategyNames]

\* the first script of the body holds null and the table has no usable
\* row: parse_schema_org has raised, the table strategy found nothing, and
\* the result is what the text yields
C28_WitnessNextStrategy ==
    /\ pure.fn = "parse"
    /\ StrategyOutcomes(pure.input)[1].kind = "raise"
    /\ StrategyOutcomes(pure.input)[2].kind = "none"
    /\ pure.input.html_content.scripts[1] = ScalarJson
    /\ pure.output.kind = "data"
    /\ pure.output.data.booking_reference = <<"A", "B", "C", "D", "9">>

\* C29: checkpoints are append-only and play no part in resumability:
\* get_last_checkpoint returns the checkpoint saved last, None when none was
\* saved; a step of save_checkpoint or get_last_checkpoint leaves the Email
\* Records and the Processing Events as they were, and with them the results
\* of is_email_processed and get_unprocessed_emails.
C29_CheckpointsApart ==
    [][/\ IsPrefix(checkpoints, checkpoints')
       /\ checkpoints = << >> => get_last_checkpoint(checkpoints) = None
       /\ checkpoints' # checkpoints
          => /\ conn.op.name = "save_checkpoint"
             /\ Len(checkpoints') = Len(checkpoints) + 1
             /\ get_last_checkpoint(checkpoints')
                   = <<"row", Checkpoint(conn.op.message_id, conn.op.status, << >>, None)>>
       /\ (conn.op.name \in {"save_checkpoint", "get_last_checkpoint"}
           /\ conn'.op = conn.op)
          => /\ emails' = emails
             /\ ledger' = ledger
             /\ \A m \in Msgs, phase \in Phases :
                   /\ is_email_processed(ledger', m, phase)
                         = is_email_processed(ledger, m, phase)
                   /\ get_unprocessed_emails(emails', ledger', phase)
                         = get_unprocessed_emails(emails, ledger, phase)]_vars

\* a record is in the table; after it two checkpoints have been saved, for
\* different messages, and the second save_checkpoint has returned:
\* get_last_checkpoint gives the second one, and the record is still the one
\* that get_unprocessed_emails lists
C29_Witness ==
    /\ conn.op.name = "save_checkpoint"
    /\ conn.outcome = "returned"
    /\ Len(checkpoints) = 2
    /\ checkpoints[1].last_synced_message_id # checkpoints[2].last_synced_message_id
    /\ get_last_checkpoint(checkpoints) = <<"row", checkpoints[2]>>
    /\ emails[1].present
    /\ get_unprocessed_emails(emails, ledger, PHASE1_LABEL) # {<< >>}

\* C30 as stated: SUCCESS, FAILED and SKIPPED are terminal per (message,
\* phase) pair: once any event exists for a pair, no step of the orchestrator
\* records a further event for that pair.
C30_Original ==
    [][\A m \in Msgs, phase \in Phases :
          EventsOf(ledger, m, phase) # << >>
             => EventsOf(ledger', m, phase) = EventsOf(ledger, m, phase)]_vars

\* C30 amended: SUCCESS is terminal per (message, phase) pair: once a SUCCESS
\* event exists for a pair, no step of the orchestrator records a further
\* event for that pair, in any sequence of phase 1 and phase 2 runs.
C30_SuccessIsTerminal ==
    [][\A m \in Msgs, phase \in Phases :
          (\E i \in DOMAIN ledger : /\ ledger[i].message_id = m
                                    /\ ledger[i].phase = phase
                                    /\ ledger[i].status = SUCCESS)
             => EventsOf(ledger', m, phase) = EventsOf(ledger, m, phase)]_vars

\* the first message of the search result has a FAILED label event and,
\* after it, a SUCCESS one as its last; a later sweep has passed the message
\* without recording anything
C30_Witness ==
    /\ pc = "p1_loop"
    /\ idx = 2
    /\ flight_messages = << >>
    /\ cur_statuses = {}
    /\ LET events == EventsOf(ledger, message_list[1], PHASE1_LABEL)
       IN  /\ Len(events) = 2
           /\ events[1].status = FAILED
           /\ events[2].status = SUCCESS

\* the number of SUCCESS rows of a (message, phase) pair
SuccessCount(led, m, phase) ==
    Cardinality({i \in DOMAIN led : /\ led[i].message_id = m
                                    /\ led[i].phase = phase
                                    /\ led[i].status = SUCCESS})

\* C31: under runs that follow one another, the ledger never holds more than
\* one SUCCESS event for a (message, phase) pair, in either phase, also when
\* the search result lists a message id more than once in a sweep, and
\* after any mix of dry-run and real runs, failures and retries.
C31_AtMostOneSuccess ==
    \A m \in Msgs, phase \in Phases : SuccessCount(ledger, m, phase) <= 1

\* a sweep whose search result lists one message twice has recorded SUCCESS
\* at the first listing and has passed the second; an earlier run had
\* failed on the message
C31_Witness ==
    /\ pc = "p1_loop"
    /\ Len(message_list) = 2
    /\ message_list[1] = message_list[2]
    /\ idx = 3
    /\ flight_messages = <<message_list[1]>>
    /\ Len(EventsOf(ledger, message_list[1], PHASE1_LABEL)) = 2
    /\ EventsOf(ledger, message_list[1], PHASE1_LABEL)[1].status = FAILED
    /\ SuccessCount(ledger, message_list[1], PHASE1_LABEL) = 1

\* C32: in every state reachable through Phase 1 and Phase 2 runs, each
\* message that holds a SUCCESS event for the label phase has an Email Record
\* in the store (the record is saved before the event is appended), so the
\* message is among those Phase 2 selects unless it was forwarded already.
C32_LabeledHasRecord ==
    \A m \in Msgs :
        HasSuccess(m, PHASE1_LABEL) =>
            /\ emails[m].present
            /\ (~ HasSuccess(m, PHASE2_FORWARD) =>
                    m \in UnprocessedIds(emails, ledger, PHASE2_FORWARD))

\* Phase 2 has selected a message that Phase 1 labeled
C32_Witness ==
    /\ pc = "p2_loop"
    /\ idx = 1
    /\ \E i \in DOMAIN message_ids :
          /\ HasSuccess(message_ids[i], PHASE1_LABEL)
          /\ emails[message_ids[i]].present
          /\ ~ HasSuccess(message_ids[i], PHASE2_FORWARD)

\* C33: a SUCCESS event for the forward phase is evidence of a real forward -
\* in every reachable state each message holding a SUCCESS event for the
\* forward phase was sent to the aggregator address at least once, also when
\* some Phase 2 runs were made in dry-run mode before a real run.
C33_ForwardSuccessMeansSent ==
    \A m \in Msgs : HasSuccess(m, PHASE2_FORWARD) => m \in sent

\* a real Phase 2 run selects nothing although a labeled message was never
\* sent: an earlier dry-run run recorded SUCCESS for its forward phase
C33_Divergence ==
    /\ pc = "p2_select"
    /\ ~ args.dry_run
    /\ \E m \in Msgs : /\ HasSuccess(m, PHASE1_LABEL)
                       /\ HasSuccess(m, PHASE2_FORWARD)
                       /\ m \notin sent
    /\ UnprocessedIds(emails, ledger, PHASE2_FORWARD) = {}

\* C34: within the output of one get_unique_emails call no two kept records
\* that both carry a booking reference match each other under
\* are_pnrs_duplicate (the match relation being symmetric), and every
\* dropped record matches the reference of some record kept earlier in the
\* input.
C34_KeptApartDroppedMatched ==
    pure.fn = "get_unique_emails" =>
        LET list == pure.input.emails
            unique == pure.output
            threshold == pure.input.threshold
            kept == {unique[k].message_id : k \in DOMAIN unique}
        IN  /\ \A k, l \in DOMAIN unique :
                  (k # l /\ ~Falsy(unique[k].pnr) /\ ~Falsy(unique[l].pnr))
                     => ~are_pnrs_duplicate(unique[k].pnr, unique[l].pnr, threshold)
            /\ \A i \in DOMAIN list :
                  list[i].message_id \notin kept =>
                     \E j \in 1..(i - 1) :
                        /\ list[j].message_id \in kept
                        /\ are_pnrs_duplicate(list[i].pnr, list[j].pnr, threshold)

\* two unlike references are kept and a third record is dropped for a
\* reference one character away from the first
C34_Witness ==
    /\ pure.fn = "get_unique_emails"
    /\ pure.input.threshold = FUZZY_THRESHOLD
    /\ Len(pure.input.emails) = 3
    /\ pure.input.emails[1].pnr = Pnr9
    /\ pure.input.emails[2].pnr = PnrAb
    /\ pure.input.emails[3].pnr = Pnr10
    /\ IdsOf(pure.output) = <<1, 2>>

\* the message ids that are members, but not the first member, of a group
NonFirstMembers(groups) ==
    UNION {{g.ids[k] : k \in 2..Len(g.ids)} : g \in groups}

\* the sum over the groups of (group size - 1)
RECURSIVE SurplusOf(_)
SurplusOf(groups) ==
    IF groups = {} THEN 0
    ELSE LET g == CHOOSE x \in groups : TRUE
         IN  (Len(g.ids) - 1) + SurplusOf(groups \ {g})

\* C35: find_duplicates and get_unique_emails agree on every input list with
\* distinct message ids - a record is dropped by get_unique_emails exactly
\* when its message id is a non-first member of some group returned by
\* find_duplicates, so the number of dropped records equals the sum over the
\* groups of (group size - 1).
C35_GroupsAgreeWithUnique ==
    pure.fn \in {"find_duplicates", "get_unique_emails"} =>
        LET list == pure.input.emails
            threshold == pure.input.threshold
            groups == IF pure.fn = "find_duplicates" THEN pure.output
                      ELSE find_duplicates(list, threshold)
            unique == IF pure.fn = "get_unique_emails" THEN pure.output
                      ELSE get_unique_emails(list, threshold)
            dropped == Range(IdsOf(list)) \ Range(IdsOf(unique))
        IN  /\ dropped = NonFirstMembers(groups)
            /\ Cardinality(dropped) = SurplusOf(groups)

\* find_duplicates returns one group of two for a list of three records, the
\* third a character away from the first and the second without a reference
C35_Witness ==
    /\ pure.fn = "find_duplicates"
    /\ pure.input.threshold = FUZZY_THRESHOLD
    /\ Len(pure.input.emails) = 3
    /\ pure.input.emails[1].pnr = Pnr9
    /\ pure.input.emails[2].pnr = None
    /\ pure.input.emails[3].pnr = Pnr10
    /\ pure.output = {[pnr |-> Pnr9, ids |-> <<1, 3>>]}
    /\ IdsOf(get_unique_emails(pure.input.emails, pure.input.threshold)) = <<1, 2>>

\* C36: matching is greedy and order-dependent, not transitive clustering.
\* For three references with A matching B, B matching C and A not matching
\* C, get_unique_emails keeps a different number of records for different
\* orders of the same input (order A, B, C keeps A and C; order B, A, C
\* keeps only B); and find_duplicates puts a record in the group of the
\* first canonical reference it matches, whether or not a later canonical
\* reference matches it better.
C36_GreedyOrderDependent ==
    LET list == pure.input.emails
        threshold == pure.input.threshold
        match(i, j) == are_pnrs_duplicate(list[i].pnr, list[j].pnr, threshold)
    IN  /\ (pure.fn = "get_unique_emails" /\ Len(list) = 3) =>
              /\ (match(1, 2) /\ match(2, 3) /\ ~match(1, 3))
                    => IdsOf(pure.output) = <<list[1].message_id, list[3].message_id>>
              /\ (match(2, 1) /\ match(1, 3) /\ ~match(2, 3))
                    => IdsOf(pure.output) = <<list[1].message_id>>
        /\ pure.fn = "find_duplicates" =>
              LET groups == pure.output
                  canonical(j) == /\ ~Falsy(list[j].pnr)
                                  /\ list[j].message_id \notin NonFirstMembers(groups)
              IN  \A g \in groups : \A k \in 2..Len(g.ids) :
                     LET i == PositionOf(list, g.ids[k])
                         c == PositionOf(list, g.ids[1])
                     IN  /\ c < i
                         /\ canonical(c)
                         /\ match(i, c)
                         /\ \A j \in 1..(c - 1) : canonical(j) => ~match(i, j)

\* order A, B, C of three references, A matching B, B matching C, A not
\* matching C: the first and the third are kept
C36_Witness ==
    /\ pure.fn = "get_unique_emails"
    /\ pure.input.threshold = 50
    /\ Len(pure.input.emails) = 3
    /\ pure.input.emails[1].pnr = PnrAb
    /\ pure.input.emails[2].pnr = PnrAc
    /\ pure.input.emails[3].pnr = PnrC
    /\ IdsOf(pure.output) = <<1, 3>>

\* order B, A, C of the same references: only the first is kept
C36_WitnessOtherOrder ==
    /\ pure.fn = "get_unique_emails"
    /\ pure.input.threshold = 50
    /\ Len(pure.input.emails) = 3
    /\ pure.input.emails[1].pnr = PnrAc
    /\ pure.input.emails[2].pnr = PnrAb
    /\ pure.input.emails[3].pnr = PnrC
    /\ IdsOf(pure.output) = <<1>>

\* the third record joins the group of the first reference (ratio 50)
\* although the second reference matches it better (ratio 67)
C36_WitnessNoBetterMatch ==
    /\ pure.fn = "find_duplicates"
    /\ pure.input.threshold = 50
    /\ Len(pure.input.emails) = 3
    /\ pure.input.emails[1].pnr = PnrAb
    /\ pure.input.emails[2].pnr = PnrC
    /\ pure.input.emails[3].pnr = PnrAc
    /\ Ratio(Upper(PnrAc), Upper(PnrAb)) < Ratio(Upper(PnrAc), Upper(PnrC))
    /\ pure.output = {[pnr |-> Upper(PnrAb), ids |-> <<1, 3>>]}

\* the reservation markup of the body declares type FlightReservation
\* together with a status that contains Confirmed, in the JSON-LD or in the
\* Microdata form
DeclaresConfirmedReservation(html) ==
    \/ CarriesConfirmedMarkup(html)
    \/ /\ html.markup
       /\ html.microdata.present
       /\ html.microdata.reservationStatus # Absent
       /\ "Confirmed" \in Range(html.microdata.reservationStatus)

\* the part of the score that the other three signals do not account for
MarkupShare(email_data, score) ==
    score - Weight(is_airline_domain(email_data.from_email), DOMAIN_SCORE)
          - Weight(is_confirmation_subject(email_data.subject), SUBJECT_SCORE)
          - Weight(has_flight_markers(email_data.combined_content), MARKERS_SCORE)

\* C37: the structured-markup signal (weight 50) is awarded only when the
\* reservation markup declares type FlightReservation together with a status
\* containing Confirmed, in the JSON-embedded form and in the
\* inline-attribute (Microdata) form alike; FlightReservation markup without
\* a Confirmed status does not add 50 to the score.
C37_MarkupNeedsConfirmedStatus ==
    pure.fn = "classify" =>
        (MarkupShare(pure.input, pure.output.score) = SCHEMA_SCORE
            => DeclaresConfirmedReservation(pure.input.html_content))

\* the body has no JSON-LD script and a Microdata FlightReservation div whose
\* status is Cancelled; nothing else fires; the email is a flight, score 50
C37_Divergence ==
    /\ pure.fn = "classify"
    /\ pure.input.html_content.markup
    /\ pure.input.html_content.scripts = << >>
    /\ pure.input.html_content.microdata.present
    /\ pure.input.html_content.microdata.reservationStatus = Cancelled
    /\ ~is_airline_domain(pure.input.from_email)
    /\ ~is_confirmation_subject(pure.input.subject)
    /\ ~has_flight_markers(pure.input.combined_content)
    /\ pure.output = [is_flight |-> TRUE, score |-> 50]

\* the JSON-LD form alone: the signal is awarded only with a Confirmed status
C37_JsonFormNeedsConfirmedStatus ==
    (pure.fn = "classify" /\ ~pure.input.html_content.microdata.present) =>
        (MarkupShare(pure.input, pure.output.score) = SCHEMA_SCORE
            => CarriesConfirmedMarkup(pure.input.html_content))

\* the fields of a record that the claim is about
ExtractedFields ==
    {"booking_reference", "flight_number", "departure_airport", "arrival_airport"}

\* C38: extracted fields are absent, never empty - in every record that
\* parse returns (the record Phase 1 writes its Email Record from) each of
\* booking reference, flight number, departure airport and arrival airport
\* is either missing/None or a string that is not empty, whichever strategy
\* produced it, also for a table row or a markup attribute whose value is
\* empty.
C38_AbsentNeverEmpty ==
    (pure.fn = "parse" /\ pure.output.kind = "data") =>
        \A key \in ExtractedFields : pure.output.data[key] # << >>

\* the body has no structured markup and a table whose "Flight Number" row
\* has an empty second cell: parse returns {'flight_number': ''} from the
\* table strategy
C38_Divergence ==
    /\ pure.fn = "parse"
    /\ pure.input.html_content.markup
    /\ pure.input.html_content.scripts = << >>
    /\ ~pure.input.html_content.microdata.present
    /\ pure.input.html_content.table.flight_number = << >>
    /\ pure.output.kind = "data"
    /\ pure.output.data = [NoData EXCEPT !.flight_number = << >>]
    /\ pure.output.strategies = <<"parse_schema_org", "parse_html_table">>

\* the Microdata form skips an attribute whose content is empty: the record
\* comes from a later strategy or there is none
C38_MicrodataSkipsEmptyContent ==
    (/\ pure.fn = "parse"
     /\ pure.input.html_content.markup
     /\ pure.input.html_content.microdata.present
     /\ pure.input.html_content.microdata.reservationNumber = << >>
     /\ pure.output.kind = "data"
     /\ pure.output.strategies = <<"parse_schema_org">>)
        => pure.output.data.booking_reference # << >>

====
